---- MODULE Spec2Model ----
(***************************************************************************)
(* Live schema discovery of convex-devtools: the SchemaWatcher (directory  *)
(* walk, snapshot install, chokidar add/change handlers) and the server's  *)
(* snapshot distribution (GET /api/schema, WebSocket clients, broadcast).  *)
(*                                                                         *)
(* Strings that the code inspects (startsWith, endsWith, includes,         *)
(* replace, template concatenation) are sequences of one-character         *)
(* strings, so the string operations are modelled by what they do.         *)
(***************************************************************************)
EXTENDS Integers, Sequences, FiniteSets, TLC

\* ------------------------------------------------------------------ bounds
MaxEdits == 2
MaxClients == 2
\* Scanned trees: directories nested above a file, items in a file's text.
MaxDepth == 2
MaxItems == 3
\* WebSockets one browser creates.
MaxSockets == 3
\* Calls of fetch('/api/invoke') in flight at once.
MaxFetches == 1

\* ------------------------------------------------- JavaScript string helpers
StartsWith(s, p) == Len(s) >= Len(p) /\ SubSeq(s, 1, Len(p)) = p

EndsWith(s, p) == Len(s) >= Len(p) /\ SubSeq(s, Len(s) - Len(p) + 1, Len(s)) = p

Includes(s, p) == \E i \in 1..(Len(s) - Len(p) + 1) : SubSeq(s, i, i + Len(p) - 1) = p

\* String.prototype.replace with a string pattern: the first occurrence only.
ReplaceFirst(s, p, r) ==
  IF Includes(s, p)
  THEN LET i == CHOOSE k \in 1..(Len(s) - Len(p) + 1) :
                  /\ SubSeq(s, k, k + Len(p) - 1) = p
                  /\ \A j \in 1..(k - 1) : SubSeq(s, j, j + Len(p) - 1) # p
       IN SubSeq(s, 1, i - 1) \o r \o SubSeq(s, i + Len(p), Len(s))
  ELSE s

\* path.basename of a '/'-separated path.
Basename(p) ==
  LET slashes == {i \in 1..Len(p) : p[i] = "/"}
  IN IF slashes = {} THEN p
     ELSE SubSeq(p, (CHOOSE i \in slashes : \A j \in slashes : j <= i) + 1, Len(p))

\* Mutant of PathJoin: the separator is left out.
PathJoin_NoSeparator(a, b) == a \o b

\* path.join(dir, name) and the template `${a}/${b}`.
PathJoin(a, b) == a \o <<"/">> \o b

S_ts == <<".", "t", "s">>
S_test_ts == <<".", "t", "e", "s", "t", ".", "t", "s">>
S_test_setup_ts == <<"t", "e", "s", "t", ".", "s", "e", "t", "u", "p", ".", "t", "s">>
S_node_modules == <<"n", "o", "d", "e", "_", "m", "o", "d", "u", "l", "e", "s">>
S_tests == <<"t", "e", "s", "t", "s">>
S_generated == <<"_", "g", "e", "n", "e", "r", "a", "t", "e", "d">>
S_schema_ts == <<"s", "c", "h", "e", "m", "a", ".", "t", "s">>
S_convex == <<"c", "o", "n", "v", "e", "x">>

\* ------------------------------------------------------------ null, values
Null == [null |-> TRUE]

\* "Nothing yet" in a history variable.
NoValue == [none |-> TRUE]

\* JavaScript's undefined, as the value of a property.
Undefined == [undefined |-> TRUE]

\* ----------------------------------------------------------- file contents
\* A file's text is a sequence of items in source order.  An "export" item is
\* one match of the export pattern, a "table" item one match of the table
\* pattern, an "args" item one match of the args pattern (`args: { ... }`
\* up to the first closing brace) and a "marker" item one occurrence of the
\* word paginationOptsValidator; anything else is text no pattern matches.
Export(name, kind) == [tok |-> "export", name |-> name, kind |-> kind]

TableDef(name) == [tok |-> "table", name |-> name, kind |-> "defineTable"]

\* `decls` is what stands between the braces, in order: "arg" items, each
\* one match of the argument pattern, and "marker" items, as in
\* `paginationOpts: paginationOptsValidator`.
ArgsBlock(decls) == [tok |-> "args", decls |-> decls]

\* `name: v.type(...)` or `name: v.optional(v.type(...))`
Arg(name, optional, type) ==
  [tok |-> "arg", name |-> name, optional |-> optional, type |-> type]

Marker == [tok |-> "marker"]

\* A structured comment block `/** ... */`; `text` is what stands between
\* its delimiters, a sequence of pieces: ParamTag(name) is `@param name`
\* with the dash that may follow it, Quoted(s) a string between single
\* quotes, Word(w) a word without '@' and without a single quote.
JSDoc(text) == [tok |-> "jsdoc", text |-> text]

ParamTag(name) == [piece |-> "param", s |-> name]

Quoted(s) == [piece |-> "quoted", s |-> s]

Word(w) == [piece |-> "word", s |-> w]

\* Text that is not white space and that no pattern matches, shorter than
\* 500 characters together with the items around it; and such text of more
\* than 500 characters.  Neither holds an '@' or a single quote, nor does
\* the text of an export, of an args block or of the pagination word.
Code == [tok |-> "code"]

Gap == [tok |-> "gap"]

\* ----------------------------------------------------------- directory tree
FileEntry(name, readable, content) ==
  [name |-> name, kind |-> "file", readable |-> readable,
   content |-> content, entries |-> <<>>]

DirEntry(name, readable, entries) ==
  [name |-> name, kind |-> "dir", readable |-> readable,
   content |-> <<>>, entries |-> entries]

\* fs.Dirent as readdirSync({withFileTypes: true}) returns it: name and type.
Dirent(e) == [name |-> e.name, kind |-> e.kind]

HasEntry(entries, name) == \E i \in 1..Len(entries) : entries[i].name = name

GetEntry(entries, name) ==
  entries[CHOOSE i \in 1..Len(entries) : entries[i].name = name]

\* ----------------------------------------------------------- text extractor
NormalizeType(funcType) ==
  CASE funcType = "internalQuery" -> "query"
    [] funcType = "internalMutation" -> "mutation"
    [] funcType = "internalAction" -> "action"
    [] OTHER -> funcType

\* The text of an item as the patterns of extractJSDocAbove and
\* parseJSDocParams see it.
ItemText(item) ==
  IF item.tok = "jsdoc" THEN <<Word("/**")>> \o item.text \o <<Word("*/")>>
  ELSE <<Word(item.tok)>>

RECURSIVE Flatten(_)
Flatten(items) ==
  IF items = <<>> THEN <<>> ELSE ItemText(Head(items)) \o Flatten(Tail(items))

\* extractJSDocAbove(content, position): `position` is the place of the
\* export in `content`.  The first pattern is tried at each `/**` from the
\* left, and its lazy body grows until a `*/` is followed by nothing but
\* white space up to the export: when a block stands right before the
\* export, the match begins at the first block of the file.  Otherwise the
\* first block within the last 500 characters is taken.
extractJSDocAbove(content, position) ==
  LET beforePosition == SubSeq(content, 1, position - 1)
      n == Len(beforePosition)
      docs == {i \in 1..n : beforePosition[i].tok = "jsdoc"}
      gaps == {i \in 1..n : beforePosition[i].tok = "gap"}
      from == IF gaps = {} THEN 1 ELSE (CHOOSE i \in gaps : \A j \in gaps : j <= i) + 1
      near == {i \in docs : i >= from}
  IN IF n > 0 /\ beforePosition[n].tok = "jsdoc"
     THEN LET first == CHOOSE i \in docs : \A j \in docs : i <= j
              matched == Flatten(SubSeq(beforePosition, first, n))
          IN SubSeq(matched, 2, Len(matched) - 1)
     ELSE IF near = {} THEN <<>>
     ELSE beforePosition[CHOOSE i \in near : \A j \in near : i <= j].text

\* ([^@]*) of the param pattern: what follows up to the next '@'.
RECURSIVE Description(_)
Description(pieces) ==
  IF pieces = <<>> \/ Head(pieces).piece = "param" THEN <<>>
  ELSE <<Head(pieces)>> \o Description(Tail(pieces))

RECURSIVE QuotedStrings(_)
QuotedStrings(pieces) ==
  IF pieces = <<>> THEN <<>>
  ELSE (IF Head(pieces).piece = "quoted" THEN <<Head(pieces).s>> ELSE <<>>)
       \o QuotedStrings(Tail(pieces))

\* parseJSDocParams(jsdoc): the Map from parameter name to description and
\* enum values; a later match of a name replaces an earlier one.
parseJSDocParams(jsdoc) ==
  LET starts == {i \in 1..Len(jsdoc) : jsdoc[i].piece = "param"}
      names == {jsdoc[i].s : i \in starts}
      last(name) == CHOOSE i \in starts :
                      /\ jsdoc[i].s = name
                      /\ \A j \in starts : jsdoc[j].s = name => j <= i
      trimmedDesc(name) == Description(SubSeq(jsdoc, last(name) + 1, Len(jsdoc)))
  IN [name \in names |->
        [description |-> trimmedDesc(name),
         enumValues |-> IF QuotedStrings(trimmedDesc(name)) = <<>> THEN Undefined
                        ELSE QuotedStrings(trimmedDesc(name))]]

\* The matches of the argument pattern in the content of an args block.
RECURSIVE DeclaredArgs(_, _)
DeclaredArgs(decls, jsdocParams) ==
  IF decls = <<>> THEN <<>>
  ELSE (IF Head(decls).tok = "arg"
        THEN LET argName == Head(decls).name
                 known == argName \in DOMAIN jsdocParams
             IN <<[name |-> argName, type |-> Head(decls).type,
                   optional |-> Head(decls).optional,
                   description |-> IF known THEN jsdocParams[argName].description
                                   ELSE Undefined,
                   enumValues |-> IF known THEN jsdocParams[argName].enumValues
                                  ELSE Undefined]>>
        ELSE <<>>) \o DeclaredArgs(Tail(decls), jsdocParams)

\* afterStart.match(/paginationOptsValidator/s): the word occurs somewhere
\* in the text, inside an args block or outside.
HasMarker(text) ==
  \E i \in 1..Len(text) :
    \/ text[i].tok = "marker"
    \/ /\ text[i].tok = "args"
       /\ \E j \in 1..Len(text[i].decls) : text[i].decls[j].tok = "marker"

PaginationOptsArg ==
  [name |-> "paginationOpts", type |-> "PaginationOptions", optional |-> FALSE,
   description |-> "Pagination options with cursor and numItems",
   enumValues |-> Undefined]

\* Mutant of extractArgsFromPosition: the synthetic argument is put first.
extractArgsFromPosition_SyntheticFirst(afterStart, jsdocComment) ==
  LET blocks == {i \in 1..Len(afterStart) : afterStart[i].tok = "args"}
      args == IF blocks = {} THEN <<>>
              ELSE DeclaredArgs(
                     afterStart[CHOOSE i \in blocks : \A j \in blocks : i <= j].decls,
                     parseJSDocParams(jsdocComment))
  IN IF HasMarker(afterStart) THEN <<PaginationOptsArg>> \o args ELSE args

\* extractArgsFromPosition(content, startIndex, jsdocComment): `afterStart`
\* is the text of the file from startIndex to its end.  The args pattern is
\* searched in all of it and its first match is taken; so is the pagination
\* word.
extractArgsFromPosition(afterStart, jsdocComment) ==
  LET blocks == {i \in 1..Len(afterStart) : afterStart[i].tok = "args"}
      args == IF blocks = {} THEN <<>>
              ELSE DeclaredArgs(
                     afterStart[CHOOSE i \in blocks : \A j \in blocks : i <= j].decls,
                     parseJSDocParams(jsdocComment))
  IN IF HasMarker(afterStart) THEN Append(args, PaginationOptsArg) ELSE args

\* Mutant of FunctionPath: the full path is built with '/' for ':'.
FunctionPath_SlashSeparator(modulePath, funcName) == modulePath \o <<"/">> \o funcName

\* `${modulePath}:${funcName}`
FunctionPath(modulePath, funcName) == modulePath \o <<":">> \o funcName

\* The matches of the export pattern from place `from` on, each with the
\* function parseFile pushes for it.
RECURSIVE MatchesFrom(_, _, _)
MatchesFrom(content, from, modulePath) ==
  IF from > Len(content) THEN <<>>
  ELSE LET it == content[from]
       IN (IF it.tok = "export"
           THEN <<[name |-> it.name,
                   path |-> FunctionPath(modulePath, it.name),
                   type |-> NormalizeType(it.kind),
                   args |-> extractArgsFromPosition(
                              SubSeq(content, from, Len(content)),
                              extractJSDocAbove(content, from))]>>
           ELSE <<>>) \o MatchesFrom(content, from + 1, modulePath)

\* The loop of parseFile over the matches of the export pattern.
ExportMatches(content, modulePath) == MatchesFrom(content, 1, modulePath)

\* parseFile(filePath, modulePath): `file` is what filePath names on disk now
\* (Null when nothing is there).  readFileSync throwing is caught inside.
parseFile(file, modulePath) ==
  IF file = Null \/ file.kind # "file" \/ ~file.readable
  THEN <<>>
  ELSE ExportMatches(file.content, modulePath)

RECURSIVE TableMatches(_)
TableMatches(content) ==
  IF content = <<>> THEN <<>>
  ELSE (IF Head(content).tok = "table"
        THEN <<[name |-> Head(content).name, fields |-> <<>>]>>
        ELSE <<>>) \o TableMatches(Tail(content))

\* parseSchemaFile(convexDir): `rootEntries` is the content of convexDir now.
parseSchemaFile(rootEntries) ==
  IF ~HasEntry(rootEntries, S_schema_ts) THEN <<>>
  ELSE LET f == GetEntry(rootEntries, S_schema_ts)
       IN IF f.kind # "file" \/ ~f.readable THEN <<>>
          ELSE TableMatches(f.content)

\* ---------------------------------------------------------- directory walker
SkipAtRoot(name) ==
  \/ StartsWith(name, <<".">>)
  \/ StartsWith(name, <<"_">>)
  \/ name = S_node_modules
  \/ EndsWith(name, S_test_ts)
  \/ name = S_test_setup_ts

SkipInSubdirectory(name) ==
  \/ name = S_tests
  \/ EndsWith(name, S_test_ts)
  \/ StartsWith(name, <<".">>)

Threw == [threw |-> TRUE, module |-> Null]

\* parseSubdirectory(dirPath, parentPath): `dir` is what dirPath names on disk
\* (Null when nothing is there).  readdirSync is not guarded: when it throws,
\* here or in a nested call, the exception leaves parseSubdirectory.
RECURSIVE parseSubdirectory(_, _, _)
RECURSIVE SubdirectoryLoop(_, _, _, _)
SubdirectoryLoop(entries, dirPath, parentPath, module) ==
  IF entries = <<>> THEN [threw |-> FALSE, module |-> module]
  ELSE LET entry == Head(entries)
           rest == Tail(entries)
       IN IF SkipInSubdirectory(entry.name)
          THEN SubdirectoryLoop(rest, dirPath, parentPath, module)
          ELSE IF entry.kind = "dir"
          THEN LET sub == parseSubdirectory(entry, PathJoin(dirPath, entry.name),
                                            PathJoin(parentPath, entry.name))
               IN IF sub.threw THEN Threw
                  ELSE IF Len(sub.module.functions) > 0 \/ Len(sub.module.children) > 0
                  THEN SubdirectoryLoop(rest, dirPath, parentPath,
                         [module EXCEPT !.children = Append(@, sub.module)])
                  ELSE SubdirectoryLoop(rest, dirPath, parentPath, module)
          ELSE IF entry.kind = "file" /\ EndsWith(entry.name, S_ts)
          THEN LET moduleName == ReplaceFirst(entry.name, S_ts, <<>>)
                   modulePath == PathJoin(parentPath, moduleName)
                   functions == parseFile(entry, modulePath)
               IN IF Len(functions) > 0
                  THEN SubdirectoryLoop(rest, dirPath, parentPath,
                         [module EXCEPT !.children =
                            Append(@, [name |-> moduleName, path |-> modulePath,
                                       functions |-> functions, children |-> <<>>])])
                  ELSE SubdirectoryLoop(rest, dirPath, parentPath, module)
          ELSE SubdirectoryLoop(rest, dirPath, parentPath, module)

parseSubdirectory(dir, dirPath, parentPath) ==
  IF dir = Null \/ dir.kind # "dir" \/ ~dir.readable
  THEN Threw
  ELSE SubdirectoryLoop(dir.entries, dirPath, parentPath,
         [name |-> Basename(dirPath), path |-> parentPath,
          functions |-> <<>>, children |-> <<>>])

\* Mutant of RootEntryStep: a subdirectory's module is pushed without the
\* test of its functions and children, and a file's without the test of its
\* functions.
RootEntryStep_KeepsEmpty(entry, rootEntries, modules) ==
  LET now == IF HasEntry(rootEntries, entry.name)
             THEN GetEntry(rootEntries, entry.name) ELSE Null
  IN IF SkipAtRoot(entry.name)
     THEN [threw |-> FALSE, modules |-> modules]
     ELSE IF entry.kind = "dir"
     THEN LET sub == parseSubdirectory(now, PathJoin(S_convex, entry.name), entry.name)
          IN IF sub.threw THEN [threw |-> TRUE, modules |-> modules]
             ELSE [threw |-> FALSE, modules |-> Append(modules, sub.module)]
     ELSE IF entry.kind = "file" /\ EndsWith(entry.name, S_ts)
     THEN LET moduleName == ReplaceFirst(entry.name, S_ts, <<>>)
              functions == parseFile(now, moduleName)
          IN [threw |-> FALSE,
              modules |-> Append(modules,
                            [name |-> moduleName, path |-> moduleName,
                             functions |-> functions, children |-> <<>>])]
     ELSE [threw |-> FALSE, modules |-> modules]

\* One iteration of the loop of parseConvexDirectory over `entry`, a Dirent
\* read earlier; `rootEntries` is the content of convexDir now.
RootEntryStep(entry, rootEntries, modules) ==
  LET now == IF HasEntry(rootEntries, entry.name)
             THEN GetEntry(rootEntries, entry.name) ELSE Null
  IN IF SkipAtRoot(entry.name)
     THEN [threw |-> FALSE, modules |-> modules]
     ELSE IF entry.kind = "dir"
     THEN LET sub == parseSubdirectory(now, PathJoin(S_convex, entry.name), entry.name)
          IN IF sub.threw THEN [threw |-> TRUE, modules |-> modules]
             ELSE IF Len(sub.module.functions) > 0 \/ Len(sub.module.children) > 0
             THEN [threw |-> FALSE, modules |-> Append(modules, sub.module)]
             ELSE [threw |-> FALSE, modules |-> modules]
     ELSE IF entry.kind = "file" /\ EndsWith(entry.name, S_ts)
     THEN LET moduleName == ReplaceFirst(entry.name, S_ts, <<>>)
              functions == parseFile(now, moduleName)
          IN IF Len(functions) > 0
             THEN [threw |-> FALSE,
                   modules |-> Append(modules,
                                 [name |-> moduleName, path |-> moduleName,
                                  functions |-> functions, children |-> <<>>])]
             ELSE [threw |-> FALSE, modules |-> modules]
     ELSE [threw |-> FALSE, modules |-> modules]

\* ------------------------------------------------------- the project on disk
\* The project tree is edited from outside the program.  `disk` says which of
\* the project's files exist and with which text, and which directories can
\* be read; ConvexEntries(d) is the content of <projectDir>/convex for it.
S_a_ts == <<"a", ".", "t", "s">>
S_b_ts == <<"b", ".", "t", "s">>
S_sub == <<"s", "u", "b">>
S_list == <<"l", "i", "s", "t">>
S_create == <<"c", "r", "e", "a", "t", "e">>
S_get == <<"g", "e", "t">>
S_products == <<"p", "r", "o", "d", "u", "c", "t", "s">>
ProjectDir == <<"/", "p">>
ConvexDir == PathJoin(ProjectDir, S_convex)

FileText(f, v) ==
  CASE f = "a" /\ v = 1 -> <<Export(S_list, "query")>>
    [] f = "a" /\ v = 2 -> <<Export(S_list, "query"), Export(S_create, "internalMutation")>>
    [] f = "b" -> <<Export(S_get, "action")>>
    [] f = "schema" -> <<TableDef(S_products)>>
    [] OTHER -> <<>>

FileNames == [a |-> S_a_ts, b |-> S_b_ts, schema |-> S_schema_ts]

FilePath(f) ==
  IF f = "b" THEN PathJoin(PathJoin(ConvexDir, S_sub), S_b_ts)
  ELSE PathJoin(ConvexDir, FileNames[f])

\* The files the developer edits while the program runs.
Files == {"a"}

Versions(f) == IF f = "a" THEN 1..2 ELSE 1..1

\* Besides a.ts, schema.ts and sub/b.ts the convex directory may hold one
\* more entry, described by `extra`: a file or a symbolic link named `leaf`
\* below the nested directories `dirs` (outermost first), the file with the
\* text `content`.  NoExtra: there is no such entry.
NoExtra == [dirs |-> <<>>, leaf |-> <<>>, kind |-> "none", content |-> <<>>]

DiskStates ==
  [rootOk : BOOLEAN, subOk : BOOLEAN, a : 0..2, b : 0..1, schema : 0..1,
   extra : {NoExtra}]

\* A symbolic link: a Dirent for which isDirectory() and isFile() are false.
SymlinkEntry(name) ==
  [name |-> name, kind |-> "symlink", readable |-> TRUE,
   content |-> <<>>, entries |-> <<>>]

RECURSIVE Nest(_, _)
Nest(dirs, leaf) ==
  IF dirs = <<>> THEN leaf
  ELSE DirEntry(Head(dirs), TRUE, <<Nest(Tail(dirs), leaf)>>)

ExtraEntries(x) ==
  IF x.kind = "none" THEN <<>>
  ELSE <<Nest(x.dirs, IF x.kind = "file" THEN FileEntry(x.leaf, TRUE, x.content)
                      ELSE SymlinkEntry(x.leaf))>>

ConvexEntries(d) ==
  (IF d.a > 0 THEN <<FileEntry(S_a_ts, TRUE, FileText("a", d.a))>> ELSE <<>>)
  \o (IF d.schema > 0 THEN <<FileEntry(S_schema_ts, TRUE, FileText("schema", d.schema))>>
      ELSE <<>>)
  \o <<DirEntry(S_sub, d.subOk,
         IF d.b > 0 THEN <<FileEntry(S_b_ts, TRUE, FileText("b", d.b))>> ELSE <<>>)>>
  \o ExtraEntries(d.extra)

\* ---------------------------------------------------------- trees to scan
\* The names and texts the extra entry is drawn from when the scan itself is
\* examined: every kind of name the two skip rules tell apart, nested up to
\* MaxDepth directories deep, and texts of up to MaxItems items.
S_products_ts == S_products \o S_ts
S_p_test_ts == <<"p">> \o S_test_ts
S_dot_h == <<".", "h">>
S_dot_p_ts == <<".", "p">> \o S_ts
S_us_p == <<"_", "p">>
S_us_p_ts == S_us_p \o S_ts
S_p_js == <<"p", ".", "j", "s">>
S_probe == <<"p", "r", "o", "b", "e">>

DirNames == {S_products, S_tests, S_generated, S_node_modules, S_dot_h, S_us_p}

LeafNames == {S_products_ts, S_p_test_ts, S_test_setup_ts, S_us_p_ts, S_dot_p_ts, S_p_js}

DirChains == UNION {[1..n -> DirNames] : n \in 0..MaxDepth}

Items ==
  {Export(S_list, "query"), Export(S_create, "internalMutation"),
   ArgsBlock(<<>>), ArgsBlock(<<Arg("id", FALSE, "id")>>),
   ArgsBlock(<<Arg("q", TRUE, "string"), Marker>>), ArgsBlock(<<Marker>>),
   Marker}

Texts == UNION {[1..n -> Items] : n \in 0..MaxItems}

\* A file exporting the one function `probe`, or a link, under every name
\* and below every chain of directories.
TreeInputs ==
  {[dirs |-> ds, leaf |-> l, kind |-> k, content |-> <<Export(S_probe, "query")>>] :
     ds \in DirChains, l \in LeafNames, k \in {"file", "symlink"}}

\* convex/products.ts and convex/products/products.ts with every text.
TextInputs ==
  {[dirs |-> ds, leaf |-> S_products_ts, kind |-> "file", content |-> t] :
     ds \in {<<>>, <<S_products>>}, t \in Texts}

\* Texts with structured comments: one or two declarations, the first of
\* `list` and the second of `create`.  A declaration may begin more than 500
\* characters after what precedes it, may have a comment block, which may
\* be kept from the export by other code, and may have an args block
\* (`comment` and `args` are sequences of no item or one).
Declaration(far, comment, detached, export, args) ==
  (IF far THEN <<Gap>> ELSE <<>>)
  \o comment
  \o (IF detached THEN <<Code>> ELSE <<>>)
  \o <<export>>
  \o args

DocOfList ==
  JSDoc(<<ParamTag("sortBy"), Word("one"), Word("of"), Quoted("newest"), Quoted("oldest")>>)

DocOfCreate == JSDoc(<<ParamTag("id"), Word("the"), Word("row")>>)

ListDeclarations ==
  {Declaration(far, comment, detached, Export(S_list, "query"), args) :
     far \in BOOLEAN, comment \in {<<>>, <<DocOfList>>}, detached \in BOOLEAN,
     args \in {<<>>, <<ArgsBlock(<<Arg("sortBy", TRUE, "string")>>)>>}}

CreateDeclarations ==
  {Declaration(far, comment, detached, Export(S_create, "mutation"), args) :
     far \in BOOLEAN, comment \in {<<>>, <<DocOfCreate>>}, detached \in BOOLEAN,
     args \in {<<>>, <<ArgsBlock(<<Arg("id", FALSE, "id"), Arg("sortBy", TRUE, "string")>>)>>}}

DocTexts == ListDeclarations \cup {l \o c : l \in ListDeclarations, c \in CreateDeclarations}

\* convex/products.ts with every text of DocTexts.
DocInputs ==
  {[dirs |-> <<>>, leaf |-> S_products_ts, kind |-> "file", content |-> t] : t \in DocTexts}

ScanInputs == TreeInputs \cup TextInputs \cup DocInputs

RECURSIVE MapDirent(_)
MapDirent(entries) ==
  IF entries = <<>> THEN <<>> ELSE <<Dirent(Head(entries))>> \o MapDirent(Tail(entries))

\* -------------------------------------------------------------------- state
VARIABLES
  disk,        \* the project tree (edited by the developer, outside the program)
  edits,       \* number of edits made to the tree so far
  fsQueue,     \* chokidar events raised and not yet delivered to a listener
  main,        \* the CLI: "created", "starting", "watching", "stopped"
  watcher,     \* SchemaWatcher.watcher: TRUE when an FSWatcher is held
  schemaInfo,  \* SchemaWatcher.schemaInfo: Null or the installed snapshot
  clock,       \* the time `new Date()` reads
  rebuilds,    \* the calls of parseSchema: position and local variables
  clients,     \* the server's `clients` set
  readyState,  \* readyState of each WebSocket
  inbox,       \* the messages sent on each WebSocket, in order
  response,    \* the answer to the latest GET /api/schema
  installed,   \* history: the call that installed last and what it had built
  emitted,     \* history: the calls whose listener emitted, in order of emission
  handled,     \* history: number of add/change events a listener acted on
  dropped,     \* history: the latest event delivered that began no rebuild
  atConnect,   \* history: what each client found when it connected
  payload,     \* history: the argument of the latest 'schema-updated' event
  schemaStore, \* the state object of useSchemaStore in a browser
  sockets,     \* readyState of each WebSocket that browser created, in order
  timers,      \* number of reconnect timeouts armed and not yet fired
  lastCall,    \* history: the latest of connect() and disconnect() the UI called
  requestStore, \* the state object of useRequestStore in a browser
  fetches,     \* the calls of fetch('/api/invoke') that have not returned
  lastOp       \* history: the latest call on the request store and the function it found selected

serverVars == <<disk, edits, fsQueue, main, watcher, schemaInfo, clock, rebuilds,
                clients, readyState, inbox, response, installed, emitted, handled, dropped,
                atConnect, payload>>

schemaVars == <<schemaStore, sockets, timers, lastCall>>

requestVars == <<requestStore, fetches, lastOp>>

storeVars == <<schemaVars, requestVars>>

vars == <<serverVars, storeVars>>

ClientIds == 1..MaxClients

\* ------------------------------------------------------------- JSON, messages
ToISOString(t) == <<"ISO", t>>

\* JSON.stringify of a snapshot or of null: a Date becomes its ISO string.
Serialize(schema) ==
  IF schema = Null THEN Null
  ELSE [modules |-> schema.modules, tables |-> schema.tables,
        lastUpdated |-> ToISOString(schema.lastUpdated)]

SchemaMessage(schema) == [type |-> "schema", data |-> Serialize(schema)]

\* -------------------------------------------------------------- parseSchema
\* The synchronous beginning of parseSchema: parseConvexDirectory reads the
\* entries of the convex directory; if that throws, parseSchema catches it.
\* `error` records what parseSchema caught: "none", "root" (the readdirSync
\* of the convex directory) or "subdirectory" (a readdirSync below it).
BeginParse(d, origin) ==
  IF d.rootOk
  THEN LET entries == MapDirent(ConvexEntries(d))
       IN [pc |-> IF entries = <<>> THEN "tables" ELSE "walk", origin |-> origin,
           error |-> "none", entries |-> entries, modules |-> <<>>, tables |-> <<>>]
  ELSE [pc |-> "parsed", origin |-> origin, error |-> "root",
        entries |-> <<>>, modules |-> <<>>, tables |-> <<>>]

\* Mutant of NewSchemaInfo: the new modules are added to those of the
\* snapshot installed before instead of replacing them.
NewSchemaInfo_Accumulates(r, now) ==
  [modules |-> (IF schemaInfo = Null THEN <<>> ELSE schemaInfo.modules) \o r.modules,
   tables |-> r.tables, lastUpdated |-> now]

\* What the install step assigns to this.schemaInfo.
NewSchemaInfo(r, now) ==
  [modules |-> r.modules, tables |-> r.tables, lastUpdated |-> now]

\* ----------------------------------------------------------------- JSON text
\* A JSON text is a sequence of tokens: punctuation, string literals,
\* numbers and the literal null; white space is left out.
Punct(c) == [t |-> "punct", s |-> c]

Str(x) == [t |-> "string", s |-> x]

Num(x) == [t |-> "number", s |-> x]

NullLiteral == [t |-> "literal", s |-> "null"]

\* Stands for an object or an array that has been recognised.
Composite == [t |-> "value", s |-> ""]

IsValue(tok) == tok.t \in {"string", "number", "literal", "value"}

\* value (, value)*
Elements(toks) ==
  /\ Len(toks) % 2 = 1
  /\ \A i \in 1..Len(toks) :
       IF i % 2 = 1 THEN IsValue(toks[i]) ELSE toks[i] = Punct(",")

\* string : value (, string : value)*
Members(toks) ==
  /\ Len(toks) % 4 = 3
  /\ \A i \in 1..Len(toks) :
       CASE i % 4 = 1 -> toks[i].t = "string"
         [] i % 4 = 2 -> toks[i] = Punct(":")
         [] i % 4 = 3 -> IsValue(toks[i])
         [] OTHER -> toks[i] = Punct(",")

\* toks[i..j] is an object or an array none of whose parts is one.
Innermost(toks, i, j) ==
  LET inside == SubSeq(toks, i + 1, j - 1)
  IN \/ /\ toks[i] = Punct("{")
        /\ toks[j] = Punct("}")
        /\ inside = <<>> \/ Members(inside)
     \/ /\ toks[i] = Punct("[")
        /\ toks[j] = Punct("]")
        /\ inside = <<>> \/ Elements(inside)

\* JSON.parse(text) returns (TRUE) or throws (FALSE): a text is a value, or
\* becomes one by recognising its innermost objects and arrays in turn.
RECURSIVE JSONParses(_)
JSONParses(text) ==
  IF Len(text) = 0 THEN FALSE
  ELSE IF Len(text) = 1 THEN IsValue(text[1])
  ELSE LET spans == {ij \in (1..Len(text)) \X (1..Len(text)) :
                       ij[1] < ij[2] /\ Innermost(text, ij[1], ij[2])}
       IN IF spans = {} THEN FALSE
          ELSE LET ij == CHOOSE x \in spans : TRUE
               IN JSONParses(SubSeq(text, 1, ij[1] - 1) \o <<Composite>>
                             \o SubSeq(text, ij[2] + 1, Len(text)))

\* '{}'
EmptyObjectText == <<Punct("{"), Punct("}")>>

\* JSON.stringify(obj, null, 2) of an object given as its entries in order,
\* each a key and the text of its value.
RECURSIVE StringifyEntries(_)
StringifyEntries(entries) ==
  IF entries = <<>> THEN <<>>
  ELSE <<Str(Head(entries).key), Punct(":")>> \o Head(entries).value
       \o (IF Len(entries) > 1 THEN <<Punct(",")>> ELSE <<>>)
       \o StringifyEntries(Tail(entries))

Stringify(entries) == <<Punct("{")>> \o StringifyEntries(entries) \o <<Punct("}")>>

\* ------------------------------------------------------------ request store
\* The functions the UI offers and the paths drafts are kept under; the
\* third path has a draft only if localStorage held one.
FnList ==
  [name |-> "list", path |-> "products:list", type |-> "query",
   args |-> <<[name |-> "paginationOpts", type |-> "PaginationOptions", optional |-> FALSE],
              [name |-> "q", type |-> "string", optional |-> TRUE]>>]

FnCreate ==
  [name |-> "create", path |-> "products:create", type |-> "mutation",
   args |-> <<[name |-> "id", type |-> "id", optional |-> FALSE],
              [name |-> "tags", type |-> "array", optional |-> FALSE]>>]

Functions == {FnList, FnCreate}

Paths == {"products:list", "products:create", "orders:get"}

\* What the user types or a saved request holds: `{"id": 1}` and the
\* unfinished `{"id":`.
TypedValid == <<Punct("{"), Str("id"), Punct(":"), Num("1"), Punct("}")>>

TypedInvalid == <<Punct("{"), Str("id"), Punct(":")>>

ArgsTexts == {TypedValid, TypedInvalid}

ResponseOk == [success |-> TRUE, error |-> Null]

ResponseFailed(message) == [success |-> FALSE, error |-> [message |-> message]]

Draft(args, resp) == [args |-> args, response |-> resp]

\* The entries setSelectedFunction puts into obj for the arguments of a
\* function, in order.
RECURSIVE DefaultEntries(_)
DefaultEntries(args) ==
  IF args = <<>> THEN <<>>
  ELSE LET a == Head(args)
       IN (IF a.name = "paginationOpts"
           THEN <<[key |-> a.name,
                   value |-> Stringify(<<[key |-> "cursor", value |-> <<NullLiteral>>],
                                         [key |-> "numItems", value |-> <<Num("10")>>]>>)]>>
           ELSE IF a.optional THEN <<>>
           ELSE IF a.type = "array"
           THEN <<[key |-> a.name, value |-> <<Punct("["), Punct("]")>>]>>
           ELSE <<[key |-> a.name, value |-> <<Str("")>>]>>)
          \o DefaultEntries(Tail(args))

\* The drafts after the draft of the function selected now has been saved.
WithCurrentSaved ==
  IF requestStore.selectedFunction # Null
  THEN [requestStore.drafts EXCEPT ![requestStore.selectedFunction.path] =
          Draft(requestStore.args, requestStore.response)]
  ELSE requestStore.drafts

\* history: a call of the store with the function it found selected; the
\* calls that select no function are recorded as "other".
Op(name) == [name |-> name, from |-> requestStore.selectedFunction]

\* Mutant of setSelectedFunction: the draft of the function being left is
\* saved only when its args are valid.
setSelectedFunction_SavesValidOnly(func) ==
  LET drafts == IF requestStore.isArgsValid THEN WithCurrentSaved ELSE requestStore.drafts
      draft == IF func # Null THEN drafts[func.path] ELSE NoValue
  IN /\ requestStore' =
          IF draft # NoValue
          THEN [requestStore EXCEPT !.drafts = drafts, !.selectedFunction = func,
                                    !.args = draft.args, !.response = draft.response,
                                    !.isArgsValid = TRUE, !.argsError = Null]
          ELSE [requestStore EXCEPT !.drafts = drafts, !.selectedFunction = func,
                                    !.args = IF func # Null /\ Len(func.args) > 0
                                             THEN Stringify(DefaultEntries(func.args))
                                             ELSE EmptyObjectText,
                                    !.response = Null,
                                    !.isArgsValid = TRUE, !.argsError = Null]
     /\ lastOp' = Op("setSelectedFunction")
     /\ UNCHANGED <<fetches, serverVars, schemaVars>>

\* setSelectedFunction(func), func a function or null
setSelectedFunction(func) ==
  LET drafts == WithCurrentSaved
      draft == IF func # Null THEN drafts[func.path] ELSE NoValue
  IN /\ requestStore' =
          IF draft # NoValue
          THEN [requestStore EXCEPT !.drafts = drafts, !.selectedFunction = func,
                                    !.args = draft.args, !.response = draft.response,
                                    !.isArgsValid = TRUE, !.argsError = Null]
          ELSE [requestStore EXCEPT !.drafts = drafts, !.selectedFunction = func,
                                    !.args = IF func # Null /\ Len(func.args) > 0
                                             THEN Stringify(DefaultEntries(func.args))
                                             ELSE EmptyObjectText,
                                    !.response = Null,
                                    !.isArgsValid = TRUE, !.argsError = Null]
     /\ lastOp' = Op("setSelectedFunction")
     /\ UNCHANGED <<fetches, serverVars, schemaVars>>

\* setArgs(args)
setArgs(args) ==
  /\ requestStore' =
       IF JSONParses(args)
       THEN [requestStore EXCEPT
               !.args = args, !.isArgsValid = TRUE, !.argsError = Null,
               !.drafts = IF requestStore.selectedFunction # Null
                          THEN [@ EXCEPT ![requestStore.selectedFunction.path] =
                                  Draft(args, requestStore.response)]
                          ELSE @]
       ELSE [requestStore EXCEPT
               !.args = args, !.isArgsValid = FALSE,
               !.argsError = [message |-> "Unexpected end of JSON input"]]
  /\ lastOp' = Op("other")
  /\ UNCHANGED <<fetches, serverVars, schemaVars>>

\* addToRecentTabs(func): to the front unless present, at most 10 kept.
addToRecentTabs(recentTabs, func) ==
  IF \E i \in 1..Len(recentTabs) : recentTabs[i].path = func.path
  THEN recentTabs
  ELSE SubSeq(<<func>> \o recentTabs, 1, IF Len(recentTabs) + 1 > 10 THEN 10
                                         ELSE Len(recentTabs) + 1)

\* invoke(), up to its await of fetch, or whole when it returns before.
invoke ==
  /\ requestStore.selectedFunction = Null \/ ~JSONParses(requestStore.args)
     \/ fetches < MaxFetches
  /\ IF requestStore.selectedFunction = Null
     THEN UNCHANGED <<requestStore, fetches>>
     ELSE LET tabs == addToRecentTabs(requestStore.recentTabs, requestStore.selectedFunction)
          IN IF JSONParses(requestStore.args)
             THEN /\ requestStore' = [requestStore EXCEPT !.recentTabs = tabs,
                                        !.isLoading = TRUE, !.response = Null]
                  /\ fetches' = fetches + 1
             ELSE /\ requestStore' = [requestStore EXCEPT !.recentTabs = tabs,
                                        !.isLoading = FALSE,
                                        !.response = ResponseFailed("Invalid JSON in arguments")]
                  /\ UNCHANGED fetches
  /\ lastOp' = Op("other")
  /\ UNCHANGED <<serverVars, schemaVars>>

\* invoke() after its awaits: the body of the answer, or what the catch
\* clause builds when fetch or response.json() threw.
FetchReturns(data) ==
  /\ fetches > 0
  /\ fetches' = fetches - 1
  /\ requestStore' = [requestStore EXCEPT !.response = data, !.isLoading = FALSE]
  /\ lastOp' = Op("other")
  /\ UNCHANGED <<serverVars, schemaVars>>

\* setResponse(response)
setResponse(resp) ==
  /\ requestStore' =
       [requestStore EXCEPT
          !.response = resp, !.isLoading = FALSE,
          !.drafts = IF requestStore.selectedFunction # Null
                     THEN [@ EXCEPT ![requestStore.selectedFunction.path] =
                             Draft(requestStore.args, resp)]
                     ELSE @]
  /\ lastOp' = Op("other")
  /\ UNCHANGED <<fetches, serverVars, schemaVars>>

\* clearResponse()
clearResponse ==
  /\ requestStore' =
       [requestStore EXCEPT
          !.response = Null,
          !.drafts = IF requestStore.selectedFunction # Null
                     THEN [@ EXCEPT ![requestStore.selectedFunction.path] =
                             Draft(requestStore.args, Null)]
                     ELSE @]
  /\ lastOp' = Op("other")
  /\ UNCHANGED <<fetches, serverVars, schemaVars>>

\* saveDraft()
saveDraft ==
  /\ requestStore' = [requestStore EXCEPT !.drafts = WithCurrentSaved]
  /\ lastOp' = Op("other")
  /\ UNCHANGED <<fetches, serverVars, schemaVars>>

\* loadFromSaved(func, args, response)
loadFromSaved(func, args, resp) ==
  /\ requestStore' =
       [requestStore EXCEPT
          !.drafts = WithCurrentSaved, !.selectedFunction = func,
          !.args = args, !.response = resp,
          !.isArgsValid = TRUE, !.argsError = Null]
  /\ lastOp' = Op("loadFromSaved")
  /\ UNCHANGED <<fetches, serverVars, schemaVars>>

\* useSchemaStore as `create` builds it, no WebSocket made yet.
InitSchemaVars ==
  /\ schemaStore = [schema |-> Null, isConnected |-> FALSE, error |-> Null, ws |-> Null]
  /\ sockets = <<>>
  /\ timers = 0
  /\ lastCall = "none"

\* useRequestStore as `create` builds it when loadDrafts() returns `stored`.
InitRequestVars(stored) ==
  /\ requestStore = [selectedFunction |-> Null, args |-> EmptyObjectText,
                     response |-> Null, isLoading |-> FALSE, isArgsValid |-> TRUE,
                     argsError |-> Null, drafts |-> stored, recentTabs |-> <<>>]
  /\ fetches = 0
  /\ lastOp = Op("none")

\* The stores of a browser whose localStorage is empty.
InitStores ==
  /\ InitSchemaVars
  /\ InitRequestVars([p \in Paths |-> NoValue])

\* The CLI before start() is called.
InitServer ==
  /\ disk \in {d \in DiskStates : d.a = 1 /\ d.schema = 1 /\ d.b = 1}
  /\ edits = 0
  /\ fsQueue = <<>>
  /\ main = "created"
  /\ watcher = FALSE
  /\ schemaInfo = Null
  /\ clock = 1
  /\ rebuilds = <<>>
  /\ clients = {}
  /\ readyState = [c \in ClientIds |-> "NEW"]
  /\ inbox = [c \in ClientIds |-> <<>>]
  /\ response = [status |-> 0, body |-> Null]
  /\ installed = NoValue
  /\ emitted = <<>>
  /\ handled = 0
  /\ dropped = NoValue
  /\ atConnect = [c \in ClientIds |-> NoValue]
  /\ payload = NoValue

Init == InitServer /\ InitStores

\* start(), up to its first suspension: the initial parseSchema is called.
Start ==
  /\ main = "created"
  /\ main' = "starting"
  /\ rebuilds' = <<BeginParse(disk, "initial")>>
  /\ UNCHANGED <<disk, edits, fsQueue, watcher, schemaInfo, clock, clients,
                 readyState, inbox, response, installed, emitted, handled, atConnect,
                 payload, dropped, storeVars>>

\* Mutant of Walk: the catch clause of parseSchema clears this.schemaInfo.
Walk_FailureClears(i) ==
  /\ rebuilds[i].pc = "walk"
  /\ LET r == rebuilds[i]
         res == RootEntryStep(Head(r.entries), IF disk.rootOk THEN ConvexEntries(disk) ELSE <<>>,
                              r.modules)
         rest == Tail(r.entries)
     IN /\ rebuilds' = [rebuilds EXCEPT ![i] =
             IF res.threw
             THEN [r EXCEPT !.pc = "parsed", !.error = "subdirectory",
                            !.entries = <<>>, !.modules = <<>>]
             ELSE [r EXCEPT !.pc = IF rest = <<>> THEN "tables" ELSE "walk",
                            !.entries = rest, !.modules = res.modules]]
        /\ schemaInfo' = IF res.threw THEN Null ELSE schemaInfo
  /\ UNCHANGED <<disk, edits, fsQueue, main, watcher, clock, clients,
                 readyState, inbox, response, installed, emitted, handled, atConnect,
                 payload, dropped, storeVars>>

\* One iteration of the loop of parseConvexDirectory, between two awaits.
Walk(i) ==
  /\ rebuilds[i].pc = "walk"
  /\ LET r == rebuilds[i]
         res == RootEntryStep(Head(r.entries), IF disk.rootOk THEN ConvexEntries(disk) ELSE <<>>,
                              r.modules)
         rest == Tail(r.entries)
     IN rebuilds' = [rebuilds EXCEPT ![i] =
          IF res.threw
          THEN [r EXCEPT !.pc = "parsed", !.error = "subdirectory",
                         !.entries = <<>>, !.modules = <<>>]
          ELSE [r EXCEPT !.pc = IF rest = <<>> THEN "tables" ELSE "walk",
                         !.entries = rest, !.modules = res.modules]]
  /\ UNCHANGED <<disk, edits, fsQueue, main, watcher, schemaInfo, clock, clients,
                 readyState, inbox, response, installed, emitted, handled, atConnect,
                 payload, dropped, storeVars>>

\* Mutant of Tables: the modules are stored into the installed snapshot as
\* soon as parseConvexDirectory has returned, before the tables are parsed.
Tables_PublishesModules(i) ==
  /\ rebuilds[i].pc = "tables"
  /\ rebuilds' = [rebuilds EXCEPT ![i] =
       [@ EXCEPT !.pc = "install",
                 !.tables = parseSchemaFile(IF disk.rootOk THEN ConvexEntries(disk) ELSE <<>>)]]
  /\ schemaInfo' = IF schemaInfo = Null THEN schemaInfo
                   ELSE [schemaInfo EXCEPT !.modules = rebuilds[i].modules]
  /\ UNCHANGED <<disk, edits, fsQueue, main, watcher, clock, clients,
                 readyState, inbox, response, installed, emitted, handled, atConnect,
                 payload, dropped, storeVars>>

\* parseSchemaFile, called once parseConvexDirectory has returned.
Tables(i) ==
  /\ rebuilds[i].pc = "tables"
  /\ rebuilds' = [rebuilds EXCEPT ![i] =
       [@ EXCEPT !.pc = "install",
                 !.tables = parseSchemaFile(IF disk.rootOk THEN ConvexEntries(disk) ELSE <<>>)]]
  /\ UNCHANGED <<disk, edits, fsQueue, main, watcher, schemaInfo, clock, clients,
                 readyState, inbox, response, installed, emitted, handled, atConnect,
                 payload, dropped, storeVars>>

\* this.schemaInfo = { modules, tables, lastUpdated: new Date() }
Install(i) ==
  /\ rebuilds[i].pc = "install"
  /\ schemaInfo' = NewSchemaInfo(rebuilds[i], clock)
  /\ clock' = clock + 1
  /\ installed' = [rid |-> i, modules |-> rebuilds[i].modules,
                    tables |-> rebuilds[i].tables]
  /\ rebuilds' = [rebuilds EXCEPT ![i] =
       [@ EXCEPT !.pc = "parsed", !.modules = <<>>, !.tables = <<>>]]
  /\ UNCHANGED <<disk, edits, fsQueue, main, watcher, clients,
                 readyState, inbox, response, emitted, handled, atConnect, payload, dropped,
                 storeVars>>

\* Mutant of StartWatching: start() does not await the initial parseSchema.
StartWatching_NoAwait ==
  /\ main = "starting"
  /\ rebuilds' = [rebuilds EXCEPT ![1] =
       [@ EXCEPT !.pc = IF @ = "parsed" THEN "done" ELSE @]]
  /\ watcher' = TRUE
  /\ main' = "watching"
  /\ UNCHANGED <<disk, edits, fsQueue, schemaInfo, clock, clients,
                 readyState, inbox, response, installed, emitted, handled, atConnect,
                 payload, dropped, storeVars>>

\* start(), after `await this.parseSchema()`: the watcher is created and the
\* two listeners are registered; the CLI then creates the server, which
\* registers its 'schema-updated' listener.
StartWatching ==
  /\ main = "starting"
  /\ rebuilds[1].pc = "parsed"
  /\ rebuilds' = [rebuilds EXCEPT ![1] = [@ EXCEPT !.pc = "done"]]
  /\ watcher' = TRUE
  /\ main' = "watching"
  /\ UNCHANGED <<disk, edits, fsQueue, schemaInfo, clock, clients,
                 readyState, inbox, response, installed, emitted, handled, atConnect,
                 payload, dropped, storeVars>>

\* Mutant of Relevant: the extension of the path is not tested.
Relevant_AnyExtension(filePath) == ~Includes(filePath, S_generated)

\* The condition both listeners test on the path chokidar reports.
Relevant(filePath) == EndsWith(filePath, S_ts) /\ ~Includes(filePath, S_generated)

\* Mutant of Deliver: a listener for 'unlink' calls parseSchema as well.
Deliver_ActsOnUnlink ==
  /\ watcher
  /\ fsQueue # <<>>
  /\ fsQueue' = Tail(fsQueue)
  /\ LET ev == Head(fsQueue)
     IN IF Relevant(ev.path)
        THEN /\ rebuilds' = Append(rebuilds, BeginParse(disk, "event"))
             /\ handled' = handled + 1
             /\ UNCHANGED dropped
        ELSE /\ dropped' = ev
             /\ UNCHANGED <<rebuilds, handled, storeVars>>
  /\ UNCHANGED <<disk, edits, main, watcher, schemaInfo, clock, clients,
                 readyState, inbox, response, installed, emitted, atConnect, payload,
                 storeVars>>

\* chokidar delivers the oldest pending event.  'change' and 'add' have a
\* listener, which calls parseSchema for a relevant path and returns at once
\* for any other; nothing listens to 'unlink'.
Deliver ==
  /\ watcher
  /\ fsQueue # <<>>
  /\ fsQueue' = Tail(fsQueue)
  /\ LET ev == Head(fsQueue)
     IN IF ev.type \in {"change", "add"}
        THEN IF Relevant(ev.path)
             THEN /\ rebuilds' = Append(rebuilds, BeginParse(disk, "event"))
                  /\ handled' = handled + 1
                  /\ UNCHANGED dropped
             ELSE /\ dropped' = ev
                  /\ UNCHANGED <<rebuilds, handled, storeVars>>
        ELSE /\ dropped' = ev
             /\ UNCHANGED <<rebuilds, handled, storeVars>>
  /\ UNCHANGED <<disk, edits, main, watcher, schemaInfo, clock, clients,
                 readyState, inbox, response, installed, emitted, atConnect, payload,
                 storeVars>>

\* Mutant of Broadcast: the loop ends at the first client that is not open
\* (the set iterates in order of connection, here the order of the ids).
Broadcast_EndsAtNonOpen(schema) ==
  [c \in ClientIds |->
     IF /\ c \in clients
        /\ \A d \in clients : d <= c => readyState[d] = "OPEN"
     THEN Append(inbox[c], SchemaMessage(schema))
     ELSE inbox[c]]

\* The server's 'schema-updated' listener: one message, sent to every client
\* of the set whose socket is open.
Broadcast(schema) ==
  [c \in ClientIds |->
     IF c \in clients /\ readyState[c] = "OPEN"
     THEN Append(inbox[c], SchemaMessage(schema))
     ELSE inbox[c]]

\* Mutant of Emit: the listener does not await parseSchema, so it may emit
\* while its rebuild has not installed yet.
Emit_NoAwait(i) ==
  /\ rebuilds[i].pc \in {"tables", "install", "parsed"}
  /\ rebuilds[i].origin = "event"
  /\ rebuilds' = [rebuilds EXCEPT ![i] = [@ EXCEPT !.pc = "done"]]
  /\ emitted' = Append(emitted, i)
  /\ payload' = schemaInfo
  /\ inbox' = Broadcast(schemaInfo)
  /\ UNCHANGED <<disk, edits, fsQueue, main, watcher, schemaInfo, clock, clients,
                 readyState, response, installed, handled, atConnect, dropped, storeVars>>

\* A listener, after `await this.parseSchema()`: emits this.schemaInfo; the
\* emit runs the server's listener synchronously.
Emit(i) ==
  /\ rebuilds[i].pc = "parsed"
  /\ rebuilds[i].origin = "event"
  /\ rebuilds' = [rebuilds EXCEPT ![i] = [@ EXCEPT !.pc = "done"]]
  /\ emitted' = Append(emitted, i)
  /\ payload' = schemaInfo
  /\ inbox' = Broadcast(schemaInfo)
  /\ UNCHANGED <<disk, edits, fsQueue, main, watcher, schemaInfo, clock, clients,
                 readyState, response, installed, handled, atConnect, dropped, storeVars>>

\* Mutant of Stop: stop() also abandons the calls of parseSchema in flight.
Stop_CancelsRebuilds ==
  /\ main \in {"watching", "stopped"}
  /\ watcher' = FALSE
  /\ main' = "stopped"
  /\ rebuilds' = [i \in 1..Len(rebuilds) |->
                    [rebuilds[i] EXCEPT !.pc = "done", !.entries = <<>>,
                                        !.modules = <<>>, !.tables = <<>>]]
  /\ UNCHANGED <<disk, edits, fsQueue, schemaInfo, clock, clients,
                 readyState, inbox, response, installed, emitted, handled, atConnect,
                 payload, dropped, storeVars>>

\* Mutant of Stop: stop() returns without closing the FSWatcher.
Stop_KeepsWatcher ==
  /\ main \in {"watching", "stopped"}
  /\ main' = "stopped"
  /\ UNCHANGED <<disk, edits, fsQueue, watcher, schemaInfo, clock, rebuilds, clients,
                 readyState, inbox, response, installed, emitted, handled, atConnect,
                 payload, dropped, storeVars>>

\* stop(): the FSWatcher, if one is held, is closed and the field set to null.
Stop ==
  /\ main \in {"watching", "stopped"}
  /\ watcher' = FALSE
  /\ main' = "stopped"
  /\ UNCHANGED <<disk, edits, fsQueue, schemaInfo, clock, rebuilds, clients,
                 readyState, inbox, response, installed, emitted, handled, atConnect,
                 payload, dropped, storeVars>>

\* ------------------------------------------------------- edits of the project
\* The `ignored` globs of the watcher: **/node_modules/**, **/_generated/**,
\* **/test.setup.ts and **/*.test.ts.
Ignored(path) ==
  \/ Includes(path \o <<"/">>, <<"/">> \o S_node_modules \o <<"/">>)
  \/ Includes(path \o <<"/">>, <<"/">> \o S_generated \o <<"/">>)
  \/ EndsWith(path, <<"/">> \o S_test_setup_ts)
  \/ EndsWith(path, S_test_ts)

\* chokidar raises an event for an edit only while a watcher is held, the
\* watched directory can be read and the path is not ignored.
RaisePath(type, path) ==
  IF watcher /\ disk.rootOk /\ ~Ignored(path)
  THEN Append(fsQueue, [type |-> type, path |-> path])
  ELSE fsQueue

Raise(type, f) == RaisePath(type, FilePath(f))

\* Files of the convex directory that export no function: their text does
\* not change what a scan finds, only their events reach the listeners.
S_notes_md == <<"n", "o", "t", "e", "s", ".", "m", "d">>
S_x_generated_ts == <<"x">> \o S_generated \o S_ts

OtherPaths ==
  {PathJoin(ConvexDir, S_notes_md),
   PathJoin(ConvexDir, S_x_generated_ts),
   PathJoin(PathJoin(ConvexDir, S_generated), S_a_ts)}

\* The developer creates (type = "add") or saves (type = "change") one of
\* the other files.
Touch(type, path) ==
  /\ edits < MaxEdits
  /\ edits' = edits + 1
  /\ fsQueue' = RaisePath(type, path)
  /\ UNCHANGED <<disk, main, watcher, schemaInfo, clock, rebuilds, clients,
                 readyState, inbox, response, installed, emitted, handled, atConnect,
                 payload, dropped, storeVars>>

\* The developer saves file f with text version v (which may be the text it
\* already has).
WriteFile(f, v) ==
  /\ edits < MaxEdits
  /\ edits' = edits + 1
  /\ disk' = [disk EXCEPT ![f] = v]
  /\ fsQueue' = Raise(IF disk[f] = 0 THEN "add" ELSE "change", f)
  /\ UNCHANGED <<main, watcher, schemaInfo, clock, rebuilds, clients,
                 readyState, inbox, response, installed, emitted, handled, atConnect,
                 payload, dropped, storeVars>>

\* The developer deletes file f.
UnlinkFile(f) ==
  /\ edits < MaxEdits
  /\ disk[f] # 0
  /\ edits' = edits + 1
  /\ disk' = [disk EXCEPT ![f] = 0]
  /\ fsQueue' = Raise("unlink", f)
  /\ UNCHANGED <<main, watcher, schemaInfo, clock, rebuilds, clients,
                 readyState, inbox, response, installed, emitted, handled, atConnect,
                 payload, dropped, storeVars>>

\* The permissions of the convex directory (d = "rootOk") or of convex/sub
\* (d = "subOk") change; chokidar reports no add or change of a file.
Chmod(d) ==
  /\ edits < MaxEdits
  /\ edits' = edits + 1
  /\ disk' = [disk EXCEPT ![d] = ~@]
  /\ UNCHANGED <<fsQueue, main, watcher, schemaInfo, clock, rebuilds, clients,
                 readyState, inbox, response, installed, emitted, handled, atConnect,
                 payload, dropped, storeVars>>

\* ------------------------------------------------------------------- server
\* The calls of parseSchema that have begun and not yet installed or failed.
InFlight == {i \in 1..Len(rebuilds) : rebuilds[i].pc \in {"walk", "tables", "install"}}

\* Mutant of Connect: the handler returns before adding the client to the
\* set when there is no snapshot to send.
Connect_ReturnsWithoutSnapshot(c) ==
  /\ main \in {"watching", "stopped"}
  /\ readyState[c] = "NEW"
  /\ clients' = IF schemaInfo # Null THEN clients \cup {c} ELSE clients
  /\ readyState' = [readyState EXCEPT ![c] = "OPEN"]
  /\ inbox' = [inbox EXCEPT ![c] =
       IF schemaInfo # Null THEN Append(@, SchemaMessage(schemaInfo)) ELSE @]
  /\ atConnect' = [atConnect EXCEPT ![c] =
       [snapshot |-> schemaInfo # Null, midRebuild |-> InFlight # {}]]
  /\ UNCHANGED <<disk, edits, fsQueue, main, watcher, schemaInfo, clock, rebuilds,
                 response, installed, emitted, handled, payload, dropped, storeVars>>

\* wss.on('connection')
Connect(c) ==
  /\ main \in {"watching", "stopped"}
  /\ readyState[c] = "NEW"
  /\ clients' = clients \cup {c}
  /\ readyState' = [readyState EXCEPT ![c] = "OPEN"]
  /\ inbox' = [inbox EXCEPT ![c] =
       IF schemaInfo # Null THEN Append(@, SchemaMessage(schemaInfo)) ELSE @]
  /\ atConnect' = [atConnect EXCEPT ![c] =
       [snapshot |-> schemaInfo # Null, midRebuild |-> InFlight # {}]]
  /\ UNCHANGED <<disk, edits, fsQueue, main, watcher, schemaInfo, clock, rebuilds,
                 response, installed, emitted, handled, payload, dropped, storeVars>>

\* The closing handshake of a socket begins: readyState is CLOSING.
BeginClose(c) ==
  /\ readyState[c] = "OPEN"
  /\ readyState' = [readyState EXCEPT ![c] = "CLOSING"]
  /\ UNCHANGED <<disk, edits, fsQueue, main, watcher, schemaInfo, clock, rebuilds,
                 clients, inbox, response, installed, emitted, handled, atConnect,
                 payload, dropped, storeVars>>

\* Mutant of Close: the handler does not delete the client from the set.
Close_KeepsClient(c) ==
  /\ readyState[c] \in {"OPEN", "CLOSING"}
  /\ readyState' = [readyState EXCEPT ![c] = "CLOSED"]
  /\ UNCHANGED <<disk, edits, fsQueue, main, watcher, schemaInfo, clock, rebuilds,
                 clients, inbox, response, installed, emitted, handled, atConnect,
                 payload, dropped, storeVars>>

\* ws.on('close')
Close(c) ==
  /\ readyState[c] \in {"OPEN", "CLOSING"}
  /\ readyState' = [readyState EXCEPT ![c] = "CLOSED"]
  /\ clients' = clients \ {c}
  /\ UNCHANGED <<disk, edits, fsQueue, main, watcher, schemaInfo, clock, rebuilds,
                 inbox, response, installed, emitted, handled, atConnect, payload, dropped,
                 storeVars>>

\* Mutant of GetApiSchema: the handler does not test for null.
GetApiSchema_NoNullTest ==
  /\ main \in {"watching", "stopped"}
  /\ response' = [status |-> 200, body |-> Serialize(schemaInfo)]
  /\ UNCHANGED <<disk, edits, fsQueue, main, watcher, schemaInfo, clock, rebuilds,
                 clients, readyState, inbox, installed, emitted, handled, atConnect,
                 payload, dropped, storeVars>>

\* app.get('/api/schema')
GetApiSchema ==
  /\ main \in {"watching", "stopped"}
  /\ LET schema == schemaInfo
     IN response' = IF schema = Null
                    THEN [status |-> 503, body |-> [error |-> "Schema not yet loaded"]]
                    ELSE [status |-> 200, body |-> Serialize(schema)]
  /\ UNCHANGED <<disk, edits, fsQueue, main, watcher, schemaInfo, clock, rebuilds,
                 clients, readyState, inbox, installed, emitted, handled, atConnect,
                 payload, dropped, storeVars>>

\* The first scan of a project whose convex directory holds one of the
\* trees to scan and is not edited meanwhile.
InitScan ==
  /\ disk \in {[rootOk |-> TRUE, subOk |-> TRUE, a |-> 1, b |-> 1, schema |-> 1,
                extra |-> x] : x \in ScanInputs}
  /\ edits = 0
  /\ fsQueue = <<>>
  /\ main = "created"
  /\ watcher = FALSE
  /\ schemaInfo = Null
  /\ clock = 1
  /\ rebuilds = <<>>
  /\ clients = {}
  /\ readyState = [c \in ClientIds |-> "NEW"]
  /\ inbox = [c \in ClientIds |-> <<>>]
  /\ response = [status |-> 0, body |-> Null]
  /\ installed = NoValue
  /\ emitted = <<>>
  /\ handled = 0
  /\ dropped = NoValue
  /\ atConnect = [c \in ClientIds |-> NoValue]
  /\ payload = NoValue
  /\ InitStores

NextScan ==
  \/ Start
  \/ \E i \in 1..Len(rebuilds) : Walk(i)
  \/ \E i \in 1..Len(rebuilds) : Tables(i)
  \/ \E i \in 1..Len(rebuilds) : Install(i)
  \/ StartWatching

SpecScan == InitScan /\ [][NextScan]_vars

Next ==
  \/ Start
  \/ \E i \in 1..Len(rebuilds) : Walk(i)
  \/ \E i \in 1..Len(rebuilds) : Tables(i)
  \/ \E i \in 1..Len(rebuilds) : Install(i)
  \/ StartWatching
  \/ Deliver
  \/ \E i \in 1..Len(rebuilds) : Emit(i)
  \/ Stop
  \/ \E f \in Files : \E v \in Versions(f) : WriteFile(f, v)
  \/ \E f \in Files : UnlinkFile(f)
  \/ \E d \in {"rootOk", "subOk"} : Chmod(d)
  \/ \E c \in ClientIds : Connect(c)
  \/ \E c \in ClientIds : BeginClose(c)
  \/ \E c \in ClientIds : Close(c)
  \/ GetApiSchema

Spec == Init /\ [][Next]_vars

\* The program without WebSocket clients: the behaviours in which no client
\* connects.  The handlers of the sockets write none of the variables of the
\* watcher or of the GET handler, so these are all the behaviours of both.
NextNoClients ==
  \/ Start
  \/ \E i \in 1..Len(rebuilds) : Walk(i)
  \/ \E i \in 1..Len(rebuilds) : Tables(i)
  \/ \E i \in 1..Len(rebuilds) : Install(i)
  \/ StartWatching
  \/ Deliver
  \/ \E i \in 1..Len(rebuilds) : Emit(i)
  \/ Stop
  \/ \E f \in Files : \E v \in Versions(f) : WriteFile(f, v)
  \/ \E f \in Files : UnlinkFile(f)
  \/ \E d \in {"rootOk", "subOk"} : Chmod(d)
  \/ GetApiSchema

SpecNoClients == Init /\ [][NextNoClients]_vars

\* The program without WebSocket clients, in a project where files that
\* export no function are created and saved too.
NextEvents ==
  \/ Start
  \/ \E i \in 1..Len(rebuilds) : Walk(i)
  \/ \E i \in 1..Len(rebuilds) : Tables(i)
  \/ \E i \in 1..Len(rebuilds) : Install(i)
  \/ StartWatching
  \/ Deliver
  \/ \E i \in 1..Len(rebuilds) : Emit(i)
  \/ Stop
  \/ \E f \in Files : \E v \in Versions(f) : WriteFile(f, v)
  \/ \E f \in Files : UnlinkFile(f)
  \/ \E d \in {"rootOk", "subOk"} : Chmod(d)
  \/ \E type \in {"add", "change"} : \E path \in OtherPaths : Touch(type, path)
  \/ GetApiSchema

SpecEvents == Init /\ [][NextEvents]_vars

\* ------------------------------------------------------------ schema store
\* useSchemaStore in one browser.  The value of the field ws is Null or
\* WS(s), the s-th WebSocket the browser created; event handlers run one at
\* a time; a timeout fires some time after it was armed.
WS(s) == [socket |-> s]

SocketIds == 1..Len(sockets)

\* event.data of a message event: a JSON text with the value it stands for,
\* or a text JSON.parse throws on.
Messages ==
  {[json |-> FALSE, value |-> Null],
   [json |-> TRUE, value |-> [type |-> "pong", data |-> Null]],
   [json |-> TRUE, value |-> SchemaMessage(Null)],
   [json |-> TRUE, value |-> SchemaMessage([modules |-> <<>>, tables |-> <<>>,
                                            lastUpdated |-> 1])]}

\* The body of connect(): nothing when the store holds a socket, else a new
\* WebSocket, connecting, with its four handlers, stored in ws.
ConnectBody ==
  IF schemaStore.ws # Null
  THEN UNCHANGED <<schemaStore, sockets>>
  ELSE /\ sockets' = Append(sockets, "CONNECTING")
       /\ schemaStore' = [schemaStore EXCEPT !.ws = WS(Len(sockets) + 1)]

\* The UI calls connect().
connect ==
  /\ schemaStore.ws # Null \/ Len(sockets) < MaxSockets
  /\ ConnectBody
  /\ lastCall' = "connect"
  /\ UNCHANGED <<timers, serverVars, requestVars>>

\* The UI calls disconnect(): ws.close() begins the closing handshake of a
\* socket that is connecting or open; the close event comes later.
disconnect ==
  /\ lastCall' = "disconnect"
  /\ IF schemaStore.ws # Null
     THEN /\ sockets' = [sockets EXCEPT ![schemaStore.ws.socket] =
                           IF @ \in {"CONNECTING", "OPEN"} THEN "CLOSING" ELSE @]
          /\ schemaStore' = [schemaStore EXCEPT !.ws = Null, !.isConnected = FALSE]
     ELSE UNCHANGED <<schemaStore, sockets>>
  /\ UNCHANGED <<timers, serverVars, requestVars>>

\* ws.onopen of socket s
onopen(s) ==
  /\ sockets[s] = "CONNECTING"
  /\ sockets' = [sockets EXCEPT ![s] = "OPEN"]
  /\ schemaStore' = [schemaStore EXCEPT !.isConnected = TRUE, !.error = Null]
  /\ UNCHANGED <<timers, lastCall, serverVars, requestVars>>

\* ws.onmessage of socket s; a message event is dispatched only while the
\* socket is open.
onmessage(s, event) ==
  /\ sockets[s] = "OPEN"
  /\ schemaStore' = IF event.json /\ event.value.type = "schema"
                    THEN [schemaStore EXCEPT !.schema = event.value.data]
                    ELSE schemaStore
  /\ UNCHANGED <<sockets, timers, lastCall, serverVars, requestVars>>

\* ws.onerror of socket s: the connection has failed and is being closed.
onerror(s) ==
  /\ sockets[s] \in {"CONNECTING", "OPEN"}
  /\ sockets' = [sockets EXCEPT ![s] = "CLOSING"]
  /\ schemaStore' = [schemaStore EXCEPT !.error = [message |-> "Connection error"]]
  /\ UNCHANGED <<timers, lastCall, serverVars, requestVars>>

\* ws.onclose of socket s: the server closed it, or a closing handshake or
\* a failure has ended.  The handler arms the reconnect timeout.
onclose(s) ==
  /\ sockets[s] \in {"OPEN", "CLOSING"}
  /\ sockets' = [sockets EXCEPT ![s] = "CLOSED"]
  /\ schemaStore' = [schemaStore EXCEPT !.isConnected = FALSE, !.ws = Null]
  /\ timers' = timers + 1
  /\ UNCHANGED <<lastCall, serverVars, requestVars>>

\* The callback of setTimeout(..., 2000): get().connect()
ReconnectTimeout ==
  /\ timers > 0
  /\ schemaStore.ws # Null \/ Len(sockets) < MaxSockets
  /\ timers' = timers - 1
  /\ ConnectBody
  /\ UNCHANGED <<lastCall, serverVars, requestVars>>

\* The server side stays as it is built while the browser's store runs.
InitSchemaStore == Init /\ disk.rootOk /\ disk.subOk

NextSchemaStore ==
  \/ connect
  \/ disconnect
  \/ \E s \in SocketIds : onopen(s)
  \/ \E s \in SocketIds : \E event \in Messages : onmessage(s, event)
  \/ \E s \in SocketIds : onerror(s)
  \/ \E s \in SocketIds : onclose(s)
  \/ ReconnectTimeout

SpecSchemaStore == InitSchemaStore /\ [][NextSchemaStore]_vars

\* The request store of a browser whose localStorage holds no draft, or one
\* draft of a function that is not offered.
InitRequestStore ==
  /\ InitServer
  /\ disk.rootOk
  /\ disk.subOk
  /\ InitSchemaVars
  /\ \E d \in {NoValue, Draft(TypedValid, ResponseOk)} :
       InitRequestVars([p \in Paths |-> IF p = "orders:get" THEN d ELSE NoValue])

NextRequestStore ==
  \/ \E func \in Functions \cup {Null} : setSelectedFunction(func)
  \/ \E args \in ArgsTexts : setArgs(args)
  \/ invoke
  \/ \E data \in {ResponseOk, ResponseFailed("Request failed")} : FetchReturns(data)
  \/ \E resp \in {Null, ResponseOk} : setResponse(resp)
  \/ clearResponse
  \/ saveDraft
  \/ \E func \in Functions : \E args \in ArgsTexts : \E resp \in {Null, ResponseOk} :
       loadFromSaved(func, args, resp)

SpecRequestStore == InitRequestStore /\ [][NextRequestStore]_vars

\* ------------------------------------------------------------------ claims
Rebuilds == 1..Len(rebuilds)

EventRebuilds == {i \in Rebuilds : rebuilds[i].origin = "event"}

\* parseSchema has returned for call i.
Completed(i) == rebuilds[i].pc \in {"parsed", "done"}

\* Call i of parseSchema installs in this step, and what it installs is
\* exactly what it has built: all modules and all tables of its own scan.
InstallsWhole(i) ==
  /\ rebuilds[i].pc = "install"
  /\ rebuilds'[i].pc = "parsed"
  /\ rebuilds[i].entries = <<>>
  /\ schemaInfo' # Null
  /\ schemaInfo'.modules = rebuilds[i].modules
  /\ schemaInfo'.tables = rebuilds[i].tables

\* C1: snapshot atomicity.  The installed snapshot changes only in a single
\* step in which one rebuild, having finished all its reads, replaces it by
\* the whole of what it built; every other step of a rebuild leaves it as it
\* was.  A client that connects gets nothing or the snapshot installed at
\* that moment, and a GET answers with the snapshot installed at that moment.
C1_SnapshotAtomicity ==
  [][/\ schemaInfo' # schemaInfo => \E i \in Rebuilds : InstallsWhole(i)
     /\ \A c \in ClientIds :
          (readyState[c] = "NEW" /\ readyState'[c] # "NEW") =>
            /\ schemaInfo' = schemaInfo
            /\ inbox'[c] \in {<<>>, <<SchemaMessage(schemaInfo)>>}
     /\ (response' # response /\ response'.status = 200) =>
          /\ schemaInfo' = schemaInfo
          /\ response'.body = Serialize(schemaInfo)]_vars

\* A client connected while a rebuild was in flight and got the snapshot
\* installed before it; the rebuild has since built something else.
C1_Witness ==
  \E c \in ClientIds : \E i \in Rebuilds :
    /\ atConnect[c] # NoValue
    /\ atConnect[c].midRebuild
    /\ atConnect[c].snapshot
    /\ schemaInfo # Null
    /\ inbox[c] = <<SchemaMessage(schemaInfo)>>
    /\ rebuilds[i].pc = "install"
    /\ rebuilds[i].modules # schemaInfo.modules

\* C2: whenever a rebuild has installed, the snapshot getSchema() returns is
\* the one built by the rebuild that installed last: its modules and its
\* tables, stamped at that install; in particular once all overlapping
\* rebuilds have completed.
C2_LastCompletedWins ==
  installed # NoValue =>
    /\ schemaInfo # Null
    /\ schemaInfo.modules = installed.modules
    /\ schemaInfo.tables = installed.tables
    /\ schemaInfo.lastUpdated = clock - 1

\* Two rebuilds triggered by events overlapped, both installed, and the one
\* triggered first installed last; all rebuilds have completed and emitted.
C2_Witness ==
  /\ Len(rebuilds) >= 3
  /\ \A i \in Rebuilds : rebuilds[i].pc = "done"
  /\ rebuilds[2].error = "none"
  /\ rebuilds[3].error = "none"
  /\ installed # NoValue
  /\ installed.rid = 2

\* A complete scan of the project as it is on disk: the loop of
\* parseConvexDirectory over all entries, then parseSchemaFile.
RECURSIVE ScanEntries(_, _, _)
ScanEntries(entries, rootEntries, modules) ==
  IF entries = <<>> THEN [threw |-> FALSE, modules |-> modules]
  ELSE LET res == RootEntryStep(Head(entries), rootEntries, modules)
       IN IF res.threw THEN res
          ELSE ScanEntries(Tail(entries), rootEntries, res.modules)

ScanOf(d) == ScanEntries(MapDirent(ConvexEntries(d)), ConvexEntries(d), <<>>)

Scannable(d) == d.rootOk /\ ~ScanOf(d).threw

\* The watcher is watching after an initial build that succeeded, no add or
\* change event is pending, and every rebuild has completed and, if an event
\* triggered it, emitted.
Settled ==
  /\ main = "watching"
  /\ rebuilds[1].error = "none"
  /\ \A k \in 1..Len(fsQueue) : fsQueue[k].type \notin {"add", "change"}
  /\ \A i \in Rebuilds : rebuilds[i].pc = "done"

\* C3 (as claimed): once add/change events have stopped and every rebuild
\* has completed, the installed snapshot is the scan of the tree on disk.
C3_ConsistentWithDisk ==
  (Settled /\ Scannable(disk)) =>
    /\ schemaInfo # Null
    /\ schemaInfo.modules = ScanOf(disk).modules
    /\ schemaInfo.tables = parseSchemaFile(ConvexEntries(disk))

\* Number of times call i occurs in the history of emissions.
Emissions(i) == Cardinality({k \in 1..Len(emitted) : emitted[k] = i})

\* C4: while watching, every add or change event a listener acts on starts
\* exactly one rebuild, whose listener emits 'schema-updated' exactly once,
\* not before its own parseSchema has returned, with the snapshot installed
\* at that time as the argument.
C4_OneRebuildOneEmission ==
  /\ [](/\ Cardinality(EventRebuilds) = handled
        /\ \A i \in EventRebuilds :
             Emissions(i) = IF rebuilds[i].pc = "done" THEN 1 ELSE 0
        /\ \A i \in Rebuilds \ EventRebuilds : Emissions(i) = 0)
  /\ [][emitted' # emitted =>
          /\ Len(emitted') = Len(emitted) + 1
          /\ Completed(emitted'[Len(emitted')])
          /\ payload' = schemaInfo
          /\ schemaInfo' = schemaInfo]_vars

\* Two events were handled, both rebuilds have emitted, and the one
\* triggered second emitted first.
C4_Witness ==
  /\ handled = 2
  /\ emitted = <<3, 2>>
  /\ payload # Null

\* C5: on every 'schema-updated' event each client that is in the set and
\* open is sent exactly one message, the event's snapshot, and a client that
\* is not in the set (never connected, or closed) is sent nothing.
C5_FanOut ==
  [][emitted' # emitted =>
       \A c \in ClientIds :
         /\ (c \in clients /\ readyState[c] = "OPEN") =>
              inbox'[c] = Append(inbox[c], SchemaMessage(payload'))
         /\ c \notin clients => inbox'[c] = inbox[c]]_vars

\* Two clients connected and were sent the same initial snapshot; an update
\* with a newer snapshot was then sent to the one that was open and not to
\* the other, whose socket was closing or closed by then.
C5_Witness ==
  \E c, d \in ClientIds :
    /\ emitted # <<>>
    /\ payload # Null
    /\ readyState[c] = "OPEN"
    /\ Len(inbox[c]) = 2
    /\ inbox[c][2] = SchemaMessage(payload)
    /\ inbox[c][2] # inbox[c][1]
    /\ readyState[d] = "CLOSED"
    /\ Len(inbox[d]) = 1
    /\ inbox[d][1] = inbox[c][1]

\* C6: a client that connects is put in the set and is sent the current
\* snapshot once if there is one, nothing if there is none; a client in the
\* set that has been sent nothing so far is sent the snapshot of the next
\* update event (if its socket is still open).
C6_Subscribe ==
  [][\A c \in ClientIds :
       /\ (readyState[c] = "NEW" /\ readyState'[c] # "NEW") =>
            /\ c \in clients'
            /\ readyState'[c] = "OPEN"
            /\ inbox[c] = <<>>
            /\ inbox'[c] = IF schemaInfo # Null THEN <<SchemaMessage(schemaInfo)>>
                                                ELSE <<>>
       /\ (emitted' # emitted /\ readyState[c] = "OPEN" /\ inbox[c] = <<>>) =>
            /\ c \in clients
            /\ inbox'[c] = <<SchemaMessage(payload')>>]_vars

\* A client connected when there was no snapshot, was sent nothing then, and
\* has since been sent the snapshot of an update event.
C6_Witness ==
  \E c \in ClientIds :
    /\ atConnect[c] # NoValue
    /\ ~atConnect[c].snapshot
    /\ payload # NoValue
    /\ payload # Null
    /\ inbox[c] = <<SchemaMessage(payload)>>

InitialScanInstalled ==
  /\ Len(rebuilds) >= 1
  /\ Completed(1)
  /\ rebuilds[1].error = "none"

C8_FirstBuildBeforeWatching ==
  (\/ watcher
   \/ main \in {"watching", "stopped"}
   \/ fsQueue # <<>>
   \/ handled > 0
   \/ EventRebuilds # {}
   \/ (installed # NoValue /\ installed.rid # 1))
  => (Len(rebuilds) >= 1 /\ rebuilds[1].pc = "done")

\* The initial build installed a snapshot, the watcher is watching, and a
\* rebuild triggered by an event is in flight.
C8_Witness ==
  /\ main = "watching"
  /\ Len(rebuilds) = 2
  /\ rebuilds[2].pc = "walk"
  /\ rebuilds[1].error = "none"
  /\ installed # NoValue
  /\ installed.rid = 1

\* C9 (as claimed): when the convex directory cannot be read during the first
\* build, start() fails and the watcher never enters the Watching state.
C9_RootUnreadableFailsStart ==
  (Len(rebuilds) >= 1 /\ rebuilds[1].error = "root") =>
    (~watcher /\ main # "watching")

\* C10 (as claimed): a build in which only a file or a subdirectory below
\* the root could not be read still completes and installs its snapshot.
C10_UnitFailureIsLocal ==
  \A i \in Rebuilds :
    (Completed(i) /\ rebuilds[i].error # "root") =>
      /\ rebuilds[i].error = "none"
      /\ installed # NoValue

C12_StopReleasesWatcher ==
  /\ [](main = "stopped" => ~watcher)
  /\ [][main = "stopped" =>
          /\ main' = "stopped"
          /\ fsQueue' = fsQueue
          /\ handled' = handled
          /\ Len(rebuilds') = Len(rebuilds)]_vars
  /\ [][(main = "stopped" /\ Stop) => UNCHANGED vars]_vars

\* stop() was called while an event raised before it was still pending: the
\* event has started no rebuild, and the tree was edited again afterwards
\* or before without another event being raised.
C12_Witness ==
  /\ main = "stopped"
  /\ Len(fsQueue) = 1
  /\ fsQueue[1].type = "change"
  /\ edits = 2
  /\ handled = 0
  /\ Len(rebuilds) = 1

\* C15 (as claimed): every message sent to a client, on connection or on an
\* update, has the two fields type = 'schema' and data, and data is a
\* snapshot, never null.
C15_MessageShape ==
  \A c \in ClientIds : \A k \in 1..Len(inbox[c]) :
    /\ DOMAIN inbox[c][k] = {"type", "data"}
    /\ inbox[c][k].type = "schema"
    /\ inbox[c][k].data # Null
    /\ DOMAIN inbox[c][k].data = {"modules", "tables", "lastUpdated"}

\* All module nodes of a list of modules, at whatever depth.
RECURSIVE ModuleNodes(_)
ModuleNodes(modules) ==
  UNION {{modules[i]} \cup ModuleNodes(modules[i].children) : i \in 1..Len(modules)}

AllFunctions(modules) ==
  UNION {{m.functions[k] : k \in 1..Len(m.functions)} : m \in ModuleNodes(modules)}

\* The first scan has installed the snapshot of a tree with an extra file.
ScannedFile ==
  /\ schemaInfo # Null
  /\ disk.extra.kind = "file"

\* The function `probe`, which only the extra file exports, is in the snapshot.
ProbeReflected == \E f \in AllFunctions(schemaInfo.modules) : f.name = S_probe

\* C13 (as claimed): a file whose name ends in .test.ts, or which lies below
\* a directory named tests at whatever depth, the root included, gives no
\* function and no module node to the snapshot.
C13_TestsExcluded ==
  (/\ ScannedFile
   /\ \/ EndsWith(disk.extra.leaf, S_test_ts)
      \/ \E k \in 1..Len(disk.extra.dirs) : disk.extra.dirs[k] = S_tests)
  => /\ ~ProbeReflected
     /\ \A m \in ModuleNodes(schemaInfo.modules) : m.name # S_tests

SkippedName(name) ==
  \/ StartsWith(name, <<".">>)
  \/ StartsWith(name, <<"_">>)
  \/ name = S_generated
  \/ name = S_node_modules

\* C14 (as claimed): a file whose name, or the name of a directory above it
\* at whatever depth, starts with '.' or '_' or is _generated or
\* node_modules gives no function and no module node to the snapshot.
C14_HiddenAndGeneratedSkipped ==
  (/\ ScannedFile
   /\ \/ SkippedName(disk.extra.leaf)
      \/ \E k \in 1..Len(disk.extra.dirs) : SkippedName(disk.extra.dirs[k]))
  => /\ ~ProbeReflected
     /\ \A m \in ModuleNodes(schemaInfo.modules) : ~SkippedName(m.name)

\* Number of module nodes on the longest way down from a list of modules.
RECURSIVE Depth(_)
Depth(modules) ==
  IF modules = <<>> THEN 0
  ELSE 1 + Depth(modules[CHOOSE i \in 1..Len(modules) :
                   \A j \in 1..Len(modules) :
                     Depth(modules[j].children) <= Depth(modules[i].children)].children)

\* C16: in every snapshot a root-level node has its name as path, and the
\* path of a child is the path of its parent, '/', and the child's name; the
\* tree is no deeper than the directories scanned (a symbolic link is not
\* followed).
C16_PathComposition ==
  schemaInfo # Null =>
    /\ \A i \in 1..Len(schemaInfo.modules) :
         schemaInfo.modules[i].path = schemaInfo.modules[i].name
    /\ \A m \in ModuleNodes(schemaInfo.modules) :
         \A k \in 1..Len(m.children) :
           m.children[k].path = m.path \o <<"/">> \o m.children[k].name
    /\ Depth(schemaInfo.modules) <= Len(disk.extra.dirs) + 2
    /\ disk.extra.kind = "symlink" =>
         \A m \in ModuleNodes(schemaInfo.modules) : m.name \notin DirNames

\* The file products/products/products.ts was scanned: its node is three
\* levels deep.
C16_Witness ==
  /\ schemaInfo # Null
  /\ disk.extra.dirs = <<S_products, S_products>>
  /\ Depth(schemaInfo.modules) = 3
  /\ \E m \in ModuleNodes(schemaInfo.modules) :
       /\ m.path = S_products \o <<"/">> \o S_products \o <<"/">> \o S_products
       /\ Len(m.functions) = 1

\* The path the location of the extra file gives its module: the names of
\* the directories and the file name without '.ts', joined by '/'.
RECURSIVE JoinSlash(_)
JoinSlash(names) ==
  IF Len(names) = 1 THEN names[1]
  ELSE names[1] \o <<"/">> \o JoinSlash(Tail(names))

LocationPath(x) ==
  JoinSlash(Append(x.dirs, SubSeq(x.leaf, 1, Len(x.leaf) - Len(S_ts))))

\* The full paths the files at their locations stand for: a.ts and sub/b.ts,
\* and the extra file if it is a .ts file.
LocationFullPaths(x) ==
  {<<"a", ":">> \o S_list, S_sub \o <<"/", "b", ":">> \o S_get}
  \cup (IF x.kind = "file" /\ EndsWith(x.leaf, S_ts)
        THEN {LocationPath(x) \o <<":">> \o x.content[i].name :
                i \in {j \in 1..Len(x.content) : x.content[j].tok = "export"}}
        ELSE {})

\* C17: the path of every function of a snapshot is the path of the module
\* node holding it, ':' and the function's name; it is the path the location
\* of the function's file stands for, so a scan of the same location gives
\* the same full path.
C17_FullPath ==
  schemaInfo # Null =>
    /\ \A m \in ModuleNodes(schemaInfo.modules) :
         \A k \in 1..Len(m.functions) :
           m.functions[k].path = m.path \o <<":">> \o m.functions[k].name
    /\ \A f \in AllFunctions(schemaInfo.modules) :
         f.path \in LocationFullPaths(disk.extra)

\* products/products.ts exporting list has given 'products/products:list'.
C17_Witness ==
  /\ schemaInfo # Null
  /\ disk.extra.dirs = <<S_products>>
  /\ disk.extra.leaf = S_products_ts
  /\ \E f \in AllFunctions(schemaInfo.modules) :
       f.path = <<"p", "r", "o", "d", "u", "c", "t", "s", "/",
                  "p", "r", "o", "d", "u", "c", "t", "s", ":", "l", "i", "s", "t">>

\* The functions the snapshot holds for the extra file, in order: those of
\* the module node with the path of the file's location.
FileFunctions ==
  LET nodes == {m \in ModuleNodes(schemaInfo.modules) :
                  m.path = LocationPath(disk.extra) /\ m.functions # <<>>}
  IN IF nodes = {} THEN <<>> ELSE (CHOOSE m \in nodes : TRUE).functions

\* The word paginationOptsValidator occurs in item i of a text.
MarkerAt(text, i) ==
  \/ text[i].tok = "marker"
  \/ /\ text[i].tok = "args"
     /\ \E j \in 1..Len(text[i].decls) : text[i].decls[j].tok = "marker"

\* The place in the text of the k-th match of the export pattern.
ExportPlace(text, k) ==
  CHOOSE i \in 1..Len(text) :
    /\ text[i].tok = "export"
    /\ Cardinality({j \in 1..i : text[j].tok = "export"}) = k

EndsWithSynthetic(args) ==
  /\ Len(args) >= 1
  /\ args[Len(args)].name = "paginationOpts"
  /\ args[Len(args)].type = "PaginationOptions"
  /\ args[Len(args)].optional = FALSE
  /\ \A j \in 1..(Len(args) - 1) : args[j].type # "PaginationOptions"

\* The first scan has installed the snapshot of a tree in which the extra
\* file is products.ts or products/products.ts, which the walk parses.
ScannedText ==
  /\ schemaInfo # Null
  /\ disk.extra \in TextInputs

\* C18 (as claimed): when the text of a file contains the word
\* paginationOptsValidator, the argument list of each of its functions ends
\* with the synthetic argument paginationOpts, after the declared ones.
C18_PaginationOptsPerFile ==
  (/\ ScannedText
   /\ \E i \in 1..Len(disk.extra.content) : MarkerAt(disk.extra.content, i))
  => \A k \in 1..Len(FileFunctions) : EndsWithSynthetic(FileFunctions[k].args)

\* C18 (amended): the argument list of a function ends with the synthetic
\* argument paginationOpts, after all declared arguments and whether or not
\* there are any, when the word occurs in the file at or after the place of
\* the function's export; when it occurs nowhere from that place on, the
\* list has no such argument.
C18_PaginationOptsFromExport ==
  ScannedText =>
    /\ Len(FileFunctions) =
         Cardinality({i \in 1..Len(disk.extra.content) :
                        disk.extra.content[i].tok = "export"})
    /\ \A k \in 1..Len(FileFunctions) :
         LET text == disk.extra.content
             args == FileFunctions[k].args
         IN IF \E i \in ExportPlace(text, k)..Len(text) : MarkerAt(text, i)
            THEN EndsWithSynthetic(args)
            ELSE \A j \in 1..Len(args) : args[j].type # "PaginationOptions"

\* A function declaring the optional argument q in a block that also holds
\* the word has got q and then the synthetic argument; a second function,
\* exported after the block, has got neither.
C18_Witness ==
  /\ ScannedText
  /\ disk.extra.content =
       <<Export(S_list, "query"), ArgsBlock(<<Arg("q", TRUE, "string"), Marker>>),
         Export(S_create, "internalMutation")>>
  /\ Len(FileFunctions) = 2
  /\ Len(FileFunctions[1].args) = 2
  /\ FileFunctions[1].args[1].name = "q"
  /\ FileFunctions[1].args[2] = PaginationOptsArg
  /\ FileFunctions[2].args = <<>>

\* This step delivers the oldest pending event to the watcher's listeners.
Delivery ==
  /\ fsQueue # <<>>
  /\ fsQueue' = Tail(fsQueue)

\* This step neither begins a call of parseSchema, nor installs, nor emits
\* 'schema-updated', nor sends anything.
NothingStarted ==
  /\ rebuilds' = rebuilds
  /\ handled' = handled
  /\ schemaInfo' = schemaInfo
  /\ installed' = installed
  /\ emitted' = emitted
  /\ payload' = payload
  /\ inbox' = inbox

\* The path lies below a directory named _generated.
InsideGenerated(path) == Includes(path, <<"/">> \o S_generated \o <<"/">>)

\* C19: after the first build a call of parseSchema begins only when an event
\* is delivered, and then only for a path that ends in .ts and is not below
\* _generated; the delivery of an event for any other path begins no call,
\* installs nothing and emits nothing.
C19_RelevanceFilter ==
  [][/\ (rebuilds # <<>> /\ Len(rebuilds') > Len(rebuilds)) =>
          /\ Delivery
          /\ EndsWith(Head(fsQueue).path, S_ts)
          /\ ~InsideGenerated(Head(fsQueue).path)
     /\ (/\ Delivery
         /\ \/ ~EndsWith(Head(fsQueue).path, S_ts)
            \/ InsideGenerated(Head(fsQueue).path)) => NothingStarted]_vars

\* Two events have been delivered while watching: a change of notes.md, for
\* which the listener returned at once, and one that began a rebuild, which
\* has installed and emitted.
C19_Witness ==
  /\ main = "watching"
  /\ dropped # NoValue
  /\ dropped.type = "change"
  /\ dropped.path = PathJoin(ConvexDir, S_notes_md)
  /\ handled = 1
  /\ fsQueue = <<>>
  /\ Len(rebuilds) = 2
  /\ rebuilds[2].pc = "done"
  /\ rebuilds[2].error = "none"

\* C20: a call of parseSchema begins after the first build only at the
\* delivery of an 'add' or 'change' event; the delivery of an 'unlink' event
\* begins none, installs nothing and emits nothing, and the snapshot changes
\* only when a call of parseSchema installs.
C20_OnlyAddAndChange ==
  [][/\ (rebuilds # <<>> /\ Len(rebuilds') > Len(rebuilds)) =>
          /\ Delivery
          /\ Head(fsQueue).type \in {"add", "change"}
     /\ (Delivery /\ Head(fsQueue).type = "unlink") => NothingStarted
     /\ schemaInfo' # schemaInfo =>
          \E i \in Rebuilds : rebuilds[i].pc = "install" /\ rebuilds'[i].pc = "parsed"]_vars

\* a.ts has been deleted while watching and its 'unlink' event delivered:
\* nothing is pending or in flight, and the snapshot still has the module a.
C20_Witness ==
  /\ main = "watching"
  /\ disk.a = 0
  /\ edits = 1
  /\ dropped # NoValue
  /\ dropped.type = "unlink"
  /\ fsQueue = <<>>
  /\ Len(rebuilds) = 1
  /\ schemaInfo # Null
  /\ \E i \in 1..Len(schemaInfo.modules) :
       /\ schemaInfo.modules[i].name = <<"a">>
       /\ Len(schemaInfo.modules[i].functions) = 1

\* C21: stop() leaves every call of parseSchema as it is, and a call in
\* flight can always take its next step, whether stop() has been called or
\* not: it walks on, installs its snapshot, and its listener emits.
C21_InFlightRebuildSurvivesStop ==
  /\ [][(main = "watching" /\ main' = "stopped") =>
          /\ rebuilds' = rebuilds
          /\ schemaInfo' = schemaInfo]_vars
  /\ [](\A i \in Rebuilds :
          /\ rebuilds[i].pc = "walk" => ENABLED Walk(i)
          /\ rebuilds[i].pc = "tables" => ENABLED Tables(i)
          /\ rebuilds[i].pc = "install" => ENABLED Install(i)
          /\ (rebuilds[i].pc = "parsed" /\ rebuilds[i].origin = "event") => ENABLED Emit(i))
  /\ [][\A i \in Rebuilds :
          (main = "stopped" /\ rebuilds[i].pc = "install" /\ rebuilds'[i].pc = "parsed") =>
            /\ schemaInfo' # schemaInfo
            /\ schemaInfo'.modules = rebuilds[i].modules]_vars

\* stop() has returned while the second call of parseSchema, begun by an
\* event, had parsed everything and not yet assigned this.schemaInfo; the
\* assignment is its next step and can be taken.
C21_Witness ==
  /\ main = "stopped"
  /\ ~watcher
  /\ Len(rebuilds) = 2
  /\ rebuilds[2].origin = "event"
  /\ rebuilds[2].pc = "install"
  /\ emitted = <<>>
  /\ ENABLED Install(2)

\* A file leaf: functions of its own and no children.
FileLeaf(m) == Len(m.functions) > 0 /\ m.children = <<>>

\* A directory node: no functions of its own and at least one child.
DirectoryNode(m) == m.functions = <<>> /\ Len(m.children) > 0

\* C22: in every snapshot every module node is a file leaf or a directory
\* node, and the subtree of every node holds at least one function.
C22_NodeShapes ==
  schemaInfo # Null =>
    \A m \in ModuleNodes(schemaInfo.modules) :
      /\ FileLeaf(m) \/ DirectoryNode(m)
      /\ AllFunctions(<<m>>) # {}

\* The snapshot of a tree whose extra file lies two directories deep and
\* exports a function: a directory node holds a directory node that holds
\* the file's leaf.
C22_Witness ==
  /\ schemaInfo # Null
  /\ Len(disk.extra.dirs) = 2
  /\ \E m \in ModuleNodes(schemaInfo.modules) :
       /\ DirectoryNode(m)
       /\ \E k \in 1..Len(m.children) :
            /\ DirectoryNode(m.children[k])
            /\ \E j \in 1..Len(m.children[k].children) :
                 /\ FileLeaf(m.children[k].children[j])
                 /\ m.children[k].children[j].functions[1].name = S_probe

\* A step of the rebuild i that has failed or fails in this step.
FailedStep(i) ==
  /\ i \in 1..Len(rebuilds')
  /\ rebuilds'[i].error # "none"
  /\ i \in 1..Len(rebuilds) => rebuilds'[i] # rebuilds[i]

\* C24: no step of a rebuild that fails changes this.schemaInfo, which is
\* assigned only by the install step of a rebuild that caught nothing; a
\* failed rebuild never installs, and this.schemaInfo, once a snapshot, is
\* a snapshot ever after.
C24_FailedRebuildKeepsSnapshot ==
  /\ [][(\E i \in 1..Len(rebuilds') : FailedStep(i)) => schemaInfo' = schemaInfo]_vars
  /\ [][schemaInfo' # schemaInfo =>
          \E i \in Rebuilds :
            /\ rebuilds[i].pc = "install"
            /\ rebuilds[i].error = "none"
            /\ rebuilds'[i].pc = "parsed"]_vars
  /\ [](\A i \in Rebuilds :
          rebuilds[i].error # "none" => (installed = NoValue \/ installed.rid # i))
  /\ [][schemaInfo # Null => (schemaInfo' # Null /\ installed' # NoValue)]_vars

\* The initial scan installed a snapshot; the rebuild of an event then
\* failed, completed and emitted, and the snapshot of the initial scan is
\* still the installed one.
C24_Witness ==
  /\ schemaInfo # Null
  /\ Len(rebuilds) = 2
  /\ rebuilds[2].pc = "done"
  /\ rebuilds[2].error # "none"
  /\ emitted = <<2>>
  /\ installed.rid = 1
  /\ schemaInfo.modules = installed.modules

\* Every call of parseSchema that has begun has returned, and every listener
\* that awaited one has emitted.
Quiescent == \A i \in Rebuilds : rebuilds[i].pc = "done"

\* The data of the message most recently sent to client c.
LastSent(c) == inbox[c][Len(inbox[c])].data

\* C25: when every rebuild that has begun has completed and emitted, each
\* client of the set whose socket is open was last sent the serialization of
\* what getSchema() returns now; if that is a snapshot, the client has been
\* sent one.
C25_SubscriberConvergence ==
  Quiescent =>
    \A c \in clients :
      readyState[c] = "OPEN" =>
        /\ inbox[c] # <<>> => LastSent(c) = Serialize(schemaInfo)
        /\ schemaInfo # Null => inbox[c] # <<>>

\* Two rebuilds overlapped and emitted in the other order than they began;
\* one client connected before both emissions and another between them; both
\* are open and were last sent the installed snapshot, the first after an
\* older one.
C25_Witness ==
  \E c, d \in ClientIds :
    /\ Quiescent
    /\ emitted = <<3, 2>>
    /\ schemaInfo # Null
    /\ c # d
    /\ readyState[c] = "OPEN"
    /\ readyState[d] = "OPEN"
    /\ Len(inbox[c]) = 3
    /\ Len(inbox[d]) = 2
    /\ inbox[c][1] # inbox[c][3]
    /\ LastSent(c) = Serialize(schemaInfo)
    /\ LastSent(d) = Serialize(schemaInfo)

\* The first scan has installed the snapshot of a tree in which the extra
\* file is products.ts with a text of declarations and comment blocks.
ScannedDoc ==
  /\ schemaInfo # Null
  /\ disk.extra \in DocInputs

\* The comment block nearest before place p of a text, when it stands right
\* before p or with less than 500 characters between; <<>> when the nearest
\* one is farther or there is none.
NearestBlock(text, p) ==
  LET docs == {i \in 1..(p - 1) : text[i].tok = "jsdoc"}
      j == CHOOSE i \in docs : \A h \in docs : h <= i
  IN IF docs = {} THEN <<>>
     ELSE IF \E h \in (j + 1)..(p - 1) : text[h].tok = "gap" THEN <<>>
     ELSE <<text[j]>>

\* What the annotations of one block say of the argument `name`.
Annotated(block, name) ==
  IF block = <<>> \/ name \notin DOMAIN parseJSDocParams(block[1].text)
  THEN [description |-> Undefined, enumValues |-> Undefined]
  ELSE parseJSDocParams(block[1].text)[name]

\* C23 (as claimed): the description and the enum values of each declared
\* argument of a function are those the nearest comment block before the
\* function's export gives for it, the block being adjacent or less than
\* 500 characters away, and are absent when there is no such block.
C23_AnnotationsFromNearestBlock ==
  ScannedDoc =>
    \A k \in 1..Len(FileFunctions) :
      LET text == disk.extra.content
          block == NearestBlock(text, ExportPlace(text, k))
          args == FileFunctions[k].args
      IN \A a \in 1..Len(args) :
           /\ args[a].description = Annotated(block, args[a].name).description
           /\ args[a].enumValues = Annotated(block, args[a].name).enumValues

\* The place where the declaration of the k-th exported function of a text
\* ends: right before the next export, or at the end of the text.
DeclarationEnd(text, k) ==
  LET later == {i \in (ExportPlace(text, k) + 1)..Len(text) : text[i].tok = "export"}
  IN IF later = {} THEN Len(text) ELSE (CHOOSE i \in later : \A j \in later : i <= j) - 1

\* The arguments of a list that an args block declared.
ExplicitArgs(args) == SelectSeq(args, LAMBDA a : a.type # "PaginationOptions")

\* C26 (as claimed): the explicit arguments of a function are those of the
\* args block of its own declaration, none when the declaration has no args
\* block, and are what they would be if the file ended with the function's
\* declaration.
C26_ArgsFromOwnDeclaration ==
  (ScannedText \/ ScannedDoc) =>
    \A k \in 1..Len(FileFunctions) :
      LET text == disk.extra.content
          own == SubSeq(text, ExportPlace(text, k), DeclarationEnd(text, k))
          alone == ExportMatches(SubSeq(text, 1, DeclarationEnd(text, k)),
                                 LocationPath(disk.extra))
      IN /\ (\A i \in 1..Len(own) : own[i].tok # "args") =>
              ExplicitArgs(FileFunctions[k].args) = <<>>
         /\ ExplicitArgs(FileFunctions[k].args) = ExplicitArgs(alone[k].args)

\* A WebSocket that is connecting or open.
Live(s) == sockets[s] \in {"CONNECTING", "OPEN"}

\* C27 (as claimed): at most one WebSocket of the store is connecting or
\* open at any time, and the field ws refers to it whenever there is one.
C27_OneLiveSocket ==
  /\ Cardinality({s \in SocketIds : Live(s)}) <= 1
  /\ \A s \in SocketIds : Live(s) => schemaStore.ws = WS(s)

\* C28 (as claimed): while the latest call of the UI is disconnect() no
\* WebSocket is created, except by the UI calling connect(); and the close
\* event of a socket arms one reconnect timeout, which creates a WebSocket
\* when it fires and the store holds none.
C28_DisconnectStays ==
  /\ [][(lastCall = "disconnect" /\ Len(sockets') > Len(sockets)) =>
          lastCall' = "connect"]_vars
  /\ [][(\E s \in SocketIds : sockets[s] # "CLOSED" /\ sockets'[s] = "CLOSED") =>
          timers' = timers + 1]_vars
  /\ [][(timers' < timers /\ schemaStore.ws = Null) =>
          (Len(sockets') = Len(sockets) + 1 /\ sockets'[Len(sockets')] = "CONNECTING")]_vars

\* C29 (as claimed): isArgsValid is true if and only if the args string
\* parses as JSON, and argsError is null exactly when isArgsValid is true.
C29_ValidityMatchesParse ==
  /\ requestStore.isArgsValid <=> JSONParses(requestStore.args)
  /\ (requestStore.argsError = Null) <=> requestStore.isArgsValid

\* The function selected.
Selected == requestStore.selectedFunction

\* C30: a step that leaves a function stores the args string and the
\* response it has, whether or not the args parse, as the draft of its
\* path; no step changes the draft of a path other than that of the function
\* selected before it; and a call of setSelectedFunction that selects
\* another function whose path has a draft restores the args string and the
\* response of that draft.  So selecting A again, after B or any others,
\* gives back what A had when it was left, and the drafts of the paths that
\* were not selected meanwhile are as they were.
C30_DraftRoundTrip ==
  /\ [][(Selected # Null /\ Selected' # Selected) =>
          requestStore'.drafts[Selected.path] =
            Draft(requestStore.args, requestStore.response)]_vars
  /\ [][\A p \in Paths :
          (Selected = Null \/ Selected.path # p) =>
            requestStore'.drafts[p] = requestStore.drafts[p]]_vars
  /\ [][(lastOp'.name = "setSelectedFunction" /\ Selected' # Null /\ Selected' # Selected
          /\ requestStore.drafts[Selected'.path] # NoValue) =>
          /\ requestStore'.args = requestStore.drafts[Selected'.path].args
          /\ requestStore'.response = requestStore.drafts[Selected'.path].response]_vars

\* list has been selected again, from create, by setSelectedFunction, and
\* has the unfinished text as its args and a response: what its draft held,
\* since the defaults of list are another text and no response; the draft
\* of create was stored when create was left, and the draft of the path
\* that is not offered is as localStorage gave it.
C30_Witness ==
  /\ lastOp = [name |-> "setSelectedFunction", from |-> FnCreate]
  /\ Selected = FnList
  /\ requestStore.args = TypedInvalid
  /\ requestStore.response = ResponseOk
  /\ requestStore.drafts["products:create"] # NoValue
  /\ requestStore.drafts["orders:get"] = Draft(TypedValid, ResponseOk)

====
